---- MODULE Spec2Model ----
(***************************************************************************)
(* Model of the code-chunking pipeline of the code assistant:             *)
(*   src/langugae_processors/php_processor.py     (analyze_codebase and   *)
(*       the per-type parsers that fill self.chunks)                      *)
(*   src/langugae_processors/laravel_processor.py (chunk_codebase, the    *)
(*       tree-sitter traversal and the regex fallback)                    *)
(* Text is modelled as a sequence of one-character strings, a syntax tree *)
(* as a pre-order numbered set of nodes.  Each parser has a specification *)
(* of its own whose Init draws the file from a bounded set.               *)
(***************************************************************************)
EXTENDS Integers, Sequences, FiniteSets, Bags, TLC

VARIABLES
    pc,       \* position of the running handler
    file,     \* the file being parsed: its name, path and content
    chunks,   \* self.chunks (php_processor) / chunks (laravel_processor)
    loc,      \* the local variables of the running handler
    fs,       \* the directory tree on disk the analyzer is given
    returned  \* what the calls of the analyzer have returned, in order

vars == <<pc, file, chunks, loc, fs, returned>>

\* The parsers' own specifications run on one file, with no tree on disk.
NoDisk == [root |-> <<>>, dirs |-> <<>>, files |-> {}, exists |-> FALSE]

(***************************************************************************)
(* Python string helpers, on sequences of characters.                     *)
(***************************************************************************)
NL == "\n"

\* str.isspace() for the characters of the model's alphabets.
IsSpace(c) == c \in {" ", "\t", NL}

RECURSIVE LStrip(_)
LStrip(s) == IF s # <<>> /\ IsSpace(Head(s)) THEN LStrip(Tail(s)) ELSE s

RECURSIVE RStrip(_)
RStrip(s) ==
    IF s # <<>> /\ IsSpace(s[Len(s)]) THEN RStrip(SubSeq(s, 1, Len(s) - 1)) ELSE s

\* str.strip()
Strip(s) == RStrip(LStrip(s))

\* str.startswith(p)
StartsWith(s, p) == Len(s) >= Len(p) /\ SubSeq(s, 1, Len(p)) = p

\* str.endswith(p)
EndsWith(s, p) == Len(s) >= Len(p) /\ SubSeq(s, Len(s) - Len(p) + 1, Len(s)) = p

\* p in s  (substring test)
Contains(s, p) ==
    \E i \in 1..(Len(s) - Len(p) + 1) : SubSeq(s, i, i + Len(p) - 1) = p

\* s.count(c, 0, n) for a single character c: occurrences in s[0:n]
CountChar(s, c, n) == Cardinality({i \in 1..n : i <= Len(s) /\ s[i] = c})

\* str.splitlines(): the lines without their terminators; a trailing
\* terminator opens no further line.
RECURSIVE SplitLinesFrom(_, _, _)
SplitLinesFrom(s, i, cur) ==
    IF i > Len(s) THEN (IF cur = <<>> THEN <<>> ELSE <<cur>>)
    ELSE IF s[i] = NL THEN <<cur>> \o SplitLinesFrom(s, i + 1, <<>>)
    ELSE SplitLinesFrom(s, i + 1, Append(cur, s[i]))

SplitLines(s) == SplitLinesFrom(s, 1, <<>>)

\* sep.join(parts)
RECURSIVE Join(_, _)
Join(sep, parts) ==
    IF parts = <<>> THEN <<>>
    ELSE IF Len(parts) = 1 THEN parts[1]
    ELSE parts[1] \o sep \o Join(sep, Tail(parts))

\* All sequences over S of length at most n.
SeqsUpTo(S, n) == UNION {[1..k -> S] : k \in 0..n}

(***************************************************************************)
(* CodeChunk, the record every php_processor parser appends.              *)
(***************************************************************************)
CodeChunk(type, name, file_path, start_line, end_line, content, metadata, imports, calls) ==
    [type |-> type, name |-> name, file_path |-> file_path,
     start_line |-> start_line, end_line |-> end_line, content |-> content,
     metadata |-> metadata, import_dependencies |-> imports,
     method_dependencies |-> calls]

(***************************************************************************)
(* Syntax trees.  A tree is a sequence of nodes numbered in pre-order     *)
(* (document order); node 0 is the root `program`.  Each node holds its   *)
(* parent and its kind [type, name].  The source text is rendered from    *)
(* the tree, one character of the model's alphabet per lexical token,     *)
(* every node on a line of its own; WideChar is a character whose UTF-8   *)
(* encoding takes two bytes.                                              *)
(***************************************************************************)
WideChar == "U+00E9"

\* Bytes of the UTF-8 encoding of one character (bytes(content, 'utf8')).
Utf8Width(c) == IF c = WideChar THEN 2 ELSE 1

RECURSIVE Utf8Len(_)
Utf8Len(s) == IF s = <<>> THEN 0 ELSE Utf8Width(Head(s)) + Utf8Len(Tail(s))

NodeType(t, i) == IF i = 0 THEN "program" ELSE t[i].kind.type

\* node.children, in document order
Children(t, i) == {c \in 1..Len(t) : t[c].parent = i}

\* The ancestors of node i, the root included.
RECURSIVE Ancestors(_, _)
Ancestors(t, i) == IF i = 0 THEN {} ELSE {t[i].parent} \cup Ancestors(t, t[i].parent)

\* The ids of a set of nodes as a sequence in document order.
RECURSIVE InOrder(_)
InOrder(S) ==
    IF S = {} THEN <<>>
    ELSE LET m == CHOOSE x \in S : \A y \in S : x <= y
         IN  <<m>> \o InOrder(S \ {m})

RECURSIVE Flatten(_)
Flatten(ss) == IF ss = <<>> THEN <<>> ELSE Head(ss) \o Flatten(Tail(ss))

\* The text of a route call's argument list: ('/leaves', 'LeaveController@index')
RouteArgs ==
    <<"(", "'", "/leaves", "'", ",", " ", "'", "LeaveController", "@", "index", "'", ")">>

\* The tokens a node opens with, and closes with.
Header(t, i) ==
    IF i = 0 THEN <<"<?php">>
    \* $this->m()   with the receiver in the node's object field
    ELSE IF "object" \in DOMAIN t[i].kind
    THEN <<t[i].kind.object.text, "->", t[i].kind.name, "(", ")">>
    \* self::m()   with the scope in the node's scope field
    ELSE IF "scope" \in DOMAIN t[i].kind
    THEN <<t[i].kind.scope.text, "::", t[i].kind.name, "(", ")">>
    ELSE CASE t[i].kind.type = "class_declaration" ->
                  <<"class", " ", t[i].kind.name, " ", "{">>
           [] t[i].kind.type \in {"method_declaration", "function_definition"} ->
                  <<"function", " ", t[i].kind.name, "(", ")", " ", "{">>
           \* namespace N { ... }   or the statement   namespace N;
           [] t[i].kind.type = "namespace_definition" ->
                  <<"namespace", " ", t[i].kind.name>>
                  \o (IF t[i].kind.braced THEN <<" ", "{">> ELSE <<";">>)
           \* Route::get('/leaves', 'LeaveController@index')
           [] t[i].kind.type = "scoped_call_expression" ->
                  <<"Route::", t[i].kind.name>> \o RouteArgs
           \* $router->get('/leaves', 'LeaveController@index')
           [] t[i].kind.type = "member_call_expression" /\ t[i].kind.name = "$router" ->
                  <<"$router", "->", "get">> \o RouteArgs
           \* <object>->name('n'): the object is the node's child
           [] t[i].kind.type = "member_call_expression" -> <<>>
           \* return <expression>;
           [] t[i].kind.type = "return_statement" -> <<"return", " ">>
           \* use <clause>;   or   use function <clause>;
           [] t[i].kind.type = "namespace_use_declaration" ->
                  IF t[i].kind.name = "use" THEN <<"use", " ">>
                  ELSE <<"use", " ", "function", " ">>
           [] t[i].kind.type = "namespace_use_clause" -> <<>>
           \* the braces of a body are written by the method's own tokens
           [] t[i].kind.type = "compound_statement" -> <<>>
           \* new Foo
           [] t[i].kind.type = "object_creation_expression" ->
                  <<"new", " ", t[i].kind.name>>
           \* Foo::class
           [] t[i].kind.type = "class_constant_access_expression" ->
                  <<t[i].kind.name, "::class">>
           [] t[i].kind.type = "array_creation_expression" -> <<"[", NL, "]">>
           [] OTHER -> <<t[i].kind.name>>

Footer(t, i) ==
    IF i = 0 THEN <<>>
    ELSE CASE t[i].kind.type \in {"class_declaration", "method_declaration",
                                  "function_definition"} -> <<NL, "}">>
           [] t[i].kind.type = "namespace_definition" /\ t[i].kind.braced -> <<NL, "}">>
           [] t[i].kind.type = "member_call_expression" /\ t[i].kind.name = "->name" ->
                  <<"->", "name", "(", "'", "n", "'", ")">>
           [] t[i].kind.type \in {"return_statement", "namespace_use_declaration"} -> <<";">>
           [] OTHER -> <<>>

\* What stands before each child of a node: a line break in a block, nothing
\* before the object of a call.
Sep(t, i) ==
    IF i # 0 /\ t[i].kind.type \in {"member_call_expression", "return_statement",
                                     "namespace_use_declaration", "namespace_use_clause"}
    THEN <<>> ELSE <<NL>>

RECURSIVE Render(_, _)
Render(t, i) ==
    LET cs == InOrder(Children(t, i))
    IN  Header(t, i)
        \o Flatten([k \in 1..Len(cs) |-> Sep(t, i) \o Render(t, cs[k])])
        \o Footer(t, i)

\* f.read(): the decoded text of the file
SourceText(t) == Render(t, 0)

RECURSIVE SumLen(_, _)
SumLen(t, S) ==
    IF S = {} THEN 0
    ELSE LET m == CHOOSE x \in S : TRUE
         IN  Len(Sep(t, t[m].parent)) + Len(Render(t, m)) + SumLen(t, S \ {m})

\* Characters of the text before node i.
RECURSIVE StartChar(_, _)
StartChar(t, i) ==
    IF i = 0 THEN 0
    ELSE LET p == t[i].parent
         IN  StartChar(t, p) + Len(Header(t, p))
             + SumLen(t, {s \in Children(t, p) : s < i}) + Len(Sep(t, p))

EndChar(t, i) == StartChar(t, i) + Len(Render(t, i))

\* A span whose rows are reported end first.
Span_RowsSwapped(text, a, b) ==
    [start_byte |-> Utf8Len(SubSeq(text, 1, a)),
     end_byte   |-> Utf8Len(SubSeq(text, 1, b)),
     start_row  |-> CountChar(text, NL, b),
     end_row    |-> CountChar(text, NL, a)]

\* What the parser reports for the span [a, b) of characters: byte offsets
\* into the encoded text and 0-indexed rows.
Span(text, a, b) ==
    [start_byte |-> Utf8Len(SubSeq(text, 1, a)),
     end_byte   |-> Utf8Len(SubSeq(text, 1, b)),
     start_row  |-> CountChar(text, NL, a),
     end_row    |-> CountChar(text, NL, b)]

\* The node as tree-sitter hands it over.
Node(t, i) == Span(SourceText(t), StartChar(t, i), EndChar(t, i))

\* node.child_by_field_name("name"): the token after the keyword and its
\* space.
NameNode(t, i) == Span(SourceText(t), StartChar(t, i) + 2, StartChar(t, i) + 3)

\* source[a:b] for 0 <= a, 0 <= b
PySlice(s, a, b) == SubSeq(s, a + 1, IF b < Len(s) THEN b ELSE Len(s))

\* _get_node_text: the str is sliced with the node's byte offsets.
GetNodeText(node, source_code) ==
    PySlice(source_code, node.start_byte, node.end_byte)

\* _query_nodes: the node itself, then each child's matches, depth-first.
RECURSIVE QueryNodes(_, _, _)
QueryNodes(t, i, node_type) ==
    LET cs == InOrder(Children(t, i))
    IN  (IF NodeType(t, i) = node_type THEN <<i>> ELSE <<>>)
        \o Flatten([k \in 1..Len(cs) |-> QueryNodes(t, cs[k], node_type)])

(***************************************************************************)
(* The files of the _parse_php_file specification: every tree of at most  *)
(* MaxNodes nodes made of classes, methods and comments.  A comment holds *)
(* one two-byte character.  Classes sit at the top level or in a method   *)
(* body, methods in a class body.                                         *)
(***************************************************************************)
MaxNodes == 4

ClassNames == {"A", "B"}
MethodNames == {"A", "f"}

PhpKinds ==
    {[type |-> "class_declaration", name |-> n] : n \in ClassNames}
    \cup {[type |-> "method_declaration", name |-> n] : n \in MethodNames}
    \cup {[type |-> "comment", name |-> WideChar]}

\* The node types the grammar lets sit directly under a node of type p.
MayHold(p, c) ==
    CASE p = "program" ->
             c \in {"class_declaration", "comment", "scoped_call_expression",
                    "member_call_expression", "return_statement", "text",
                    "namespace_definition", "function_definition",
                    "namespace_use_declaration", "object_creation_expression",
                    "class_constant_access_expression"}
      [] p = "namespace_use_declaration" -> c = "namespace_use_clause"
      [] p = "namespace_use_clause" -> c \in {"qualified_name", "name"}
      [] p = "namespace_definition" -> c \in {"class_declaration", "function_definition"}
      [] p = "class_declaration" -> c \in {"method_declaration", "comment"}
      [] p = "method_declaration" -> c \in {"class_declaration", "comment"}
      [] p = "member_call_expression" ->
             c \in {"scoped_call_expression", "member_call_expression"}
      [] p = "return_statement" -> c \in {"array_creation_expression", "integer"}
      [] OTHER -> FALSE

\* A call `<object>->name('n')` has exactly one object; `$router->get(...)`
\* has its receiver in its own text.  A return statement has one expression.
WellFormed(t) ==
    \A i \in 1..Len(t) :
        /\ t[i].kind.type = "member_call_expression" =>
               Cardinality(Children(t, i)) = (IF t[i].kind.name = "->name" THEN 1 ELSE 0)
        /\ t[i].kind.type \in {"return_statement", "namespace_use_declaration",
                              "namespace_use_clause"} =>
               Cardinality(Children(t, i)) = 1

\* Where the next node in document order can hang: the last node or one of
\* its ancestors.
RightmostPath(t) == IF t = <<>> THEN {0} ELSE {Len(t)} \cup Ancestors(t, Len(t))

Extend(t, kinds) ==
    {Append(t, [parent |-> p, kind |-> k]) :
        <<p, k>> \in {pk \in RightmostPath(t) \X kinds :
                        MayHold(NodeType(t, pk[1]), pk[2].type)}}

RECURSIVE TreesOfSize(_, _)
TreesOfSize(n, kinds) ==
    IF n = 0 THEN {<<>>}
    ELSE UNION {Extend(t, kinds) : t \in TreesOfSize(n - 1, kinds)}

APhp == <<"a", ".", "p", "h", "p">>

PhpFiles ==
    {[name |-> APhp, path |-> APhp, file_type |-> "php", tree |-> t, decodable |-> d] :
        t \in UNION {TreesOfSize(n, PhpKinds) : n \in 0..MaxNodes}, d \in BOOLEAN}

\* Route files: statements that are calls on the Route facade, bare or with
\* `->name('n')` chained on, and calls on a router variable.
MaxRouteNodes == 4

RouteKinds ==
    {[type |-> "scoped_call_expression", name |-> n] : n \in {"get", "post"}}
    \cup {[type |-> "member_call_expression", name |-> n] : n \in {"->name", "$router"}}

RoutesPhp == <<"w", ".", "p", "h", "p">>

RouteFiles ==
    {[name |-> RoutesPhp, path |-> RoutesPhp, file_type |-> "php", tree |-> t,
      decodable |-> d] :
        t \in {x \in UNION {TreesOfSize(n, RouteKinds) : n \in 0..MaxRouteNodes} :
                  WellFormed(x)},
        d \in BOOLEAN}

(***************************************************************************)
(* _extract_dependencies.  The regular expressions are applied to the     *)
(* token sequence: a name is one token, and what a pattern captures from  *)
(* a name token is tabulated below.                                       *)
(***************************************************************************)
Keywords == {"use", "as", "function", "const", "new", "class"}
DepNames == {"App\\Leave", "App\\User", "Foo", "\\Foo"}
RouteWords == {"get", "post", "name", "index", "n", "LeaveController", "middleware"}

\* Tokens matched whole by [\\A-Za-z0-9_]+(?:\\[A-Za-z0-9_]+)*
IsQualifiedWord(tok) ==
    tok \in Keywords \cup DepNames \cup ClassNames \cup MethodNames \cup RouteWords

\* Tokens matched whole by [A-Za-z0-9_]+  (\w+)
IsPlainWord(tok) == IsQualifiedWord(tok) /\ tok \notin {"App\\Leave", "App\\User", "\\Foo"}

\* ['"]
IsQuote(tok) == tok \in {"'", "\""}

\* What [A-Z][A-Za-z0-9_]* captures at the start of a token (<<>>: no match).
NewGroup(tok) ==
    CASE tok \in {"App\\Leave", "App\\User"} -> <<"App">>
      [] tok \in {"Foo", "A", "B"} -> <<tok>>
      [] OTHER -> <<>>

\* dep.strip().strip('\\')
StripBackslash(tok) == IF tok = "\\Foo" THEN "Foo" ELSE tok

Tok(s, i) == IF i \in 1..Len(s) THEN s[i] ELSE "<eof>"

\* The first position at or after i that holds no whitespace.
RECURSIVE SkipWs(_, _)
SkipWs(s, i) == IF i <= Len(s) /\ IsSpace(s[i]) THEN SkipWs(s, i + 1) ELSE i

\* use\s+(NAME)\s*;
UseStandard(s, i) ==
    LET j == SkipWs(s, i + 1)
        k == SkipWs(s, j + 1)
    IN  IF Tok(s, i) = "use" /\ j > i + 1 /\ IsQualifiedWord(Tok(s, j)) /\ Tok(s, k) = ";"
        THEN <<s[j]>> ELSE <<>>

\* use\s+(NAME)\s+as\s+[A-Za-z0-9_]+\s*;
UseAlias(s, i) ==
    LET j == SkipWs(s, i + 1)
        k == SkipWs(s, j + 1)
        l == SkipWs(s, k + 1)
        m == SkipWs(s, l + 1)
    IN  IF /\ Tok(s, i) = "use" /\ j > i + 1 /\ IsQualifiedWord(Tok(s, j))
           /\ k > j + 1 /\ Tok(s, k) = "as"
           /\ l > k + 1 /\ IsPlainWord(Tok(s, l)) /\ Tok(s, m) = ";"
        THEN <<s[j]>> ELSE <<>>

\* use\s+function\s+(NAME)\s*;   and   use\s+const\s+(NAME)\s*;
UseKeyword(kw, s, i) ==
    LET j == SkipWs(s, i + 1)
        k == SkipWs(s, j + 1)
        l == SkipWs(s, k + 1)
    IN  IF /\ Tok(s, i) = "use" /\ j > i + 1 /\ Tok(s, j) = kw
           /\ k > j + 1 /\ IsQualifiedWord(Tok(s, k)) /\ Tok(s, l) = ";"
        THEN <<s[k]>> ELSE <<>>

UseFunction(s, i) == UseKeyword("function", s, i)
UseConst(s, i) == UseKeyword("const", s, i)

\* new\s+([A-Z][A-Za-z0-9_]*)
NewClass(s, i) ==
    LET j == SkipWs(s, i + 1)
    IN  IF Tok(s, i) = "new" /\ j > i + 1 THEN NewGroup(Tok(s, j)) ELSE <<>>

\* ::class  (no group: findall returns the match itself)
ClassConst(s, i) == IF Tok(s, i) = "::class" THEN <<"::class">> ELSE <<>>

\* @extends\(['"]([^'"]+)['"]\)   and   @include\(['"]([^'"]+)['"]\)
ExtendsArg(tok) ==
    CASE tok = "@extends('a')" -> <<"a">>
      [] tok = "@extends('b')" -> <<"b">>
      [] OTHER -> <<>>

IncludeArg(tok) ==
    CASE tok = "@include('a')" -> <<"a">>
      [] tok = "@include('b')" -> <<"b">>
      [] OTHER -> <<>>

BladeExtends(s, i) == ExtendsArg(Tok(s, i))
BladeInclude(s, i) == IncludeArg(Tok(s, i))

\* Clean up dependencies: trim, and keep the first occurrence of each.
RECURSIVE CleanDepsFrom(_, _)
CleanDepsFrom(deps, cleaned) ==
    IF deps = <<>> THEN cleaned
    ELSE LET dep == StripBackslash(Head(deps))
         IN  CleanDepsFrom(Tail(deps),
                 IF dep # "" /\ dep \notin {cleaned[k] : k \in 1..Len(cleaned)}
                 THEN Append(cleaned, dep) ELSE cleaned)

CleanDeps(deps) == CleanDepsFrom(deps, <<>>)

\* Method 1: the first qualified_name of every namespace_use_clause.
UseClauseNames(t, content) ==
    LET decls == QueryNodes(t, 0, "namespace_use_declaration")
        clausesOf(d) == QueryNodes(t, d, "namespace_use_clause")
        nameOf(c) ==
            LET q == QueryNodes(t, c, "qualified_name")
            IN  IF q = <<>> THEN <<>>
                ELSE LET dep == GetNodeText(Node(t, q[1]), content)
                     IN  IF dep = <<>> THEN <<>> ELSE <<dep[1]>>
        namesOf(d) ==
            LET cl == clausesOf(d)
            IN  Flatten([k \in 1..Len(cl) |-> nameOf(cl[k])])
    IN  Flatten([k \in 1..Len(decls) |-> namesOf(decls[k])])

ExtractDependencies(t, content) ==
    LET \* re.findall(pattern, content): the captures, in order of position
        FindAll(M(_, _)) == Flatten([i \in 1..Len(content) |-> M(content, i)])
        method1 == UseClauseNames(t, content)
        method2 == IF method1 = <<>>
                   THEN FindAll(UseStandard) \o FindAll(UseAlias)
                        \o FindAll(UseFunction) \o FindAll(UseConst)
                   ELSE <<>>
        method3 == FindAll(NewClass) \o FindAll(ClassConst)
                   \o FindAll(BladeExtends) \o FindAll(BladeInclude)
    IN  CleanDeps(method1 \o method2 \o method3)

\* The files of the _extract_dependencies specification: use declarations
\* of a qualified or a simple name, `new Foo`, `Foo::class`, and a template
\* directive.
MaxDepNodes == 4

DepKinds ==
    {[type |-> "namespace_use_declaration", name |-> n] : n \in {"use", "use function"}}
    \cup {[type |-> "namespace_use_clause", name |-> ""],
          [type |-> "qualified_name", name |-> "App\\User"],
          [type |-> "name", name |-> "Foo"],
          [type |-> "object_creation_expression", name |-> "Foo"],
          [type |-> "class_constant_access_expression", name |-> "Foo"],
          [type |-> "text", name |-> "@include('a')"]}

DepFiles ==
    {[name |-> APhp, path |-> APhp, tree |-> t] :
        t \in {x \in UNION {TreesOfSize(n, DepKinds) : n \in 0..MaxDepNodes} :
                  WellFormed(x)}}

InitDeps ==
    /\ file \in DepFiles
    /\ fs = NoDisk
    /\ returned = <<>>
    /\ pc = "deps_call"
    /\ chunks = <<>>
    /\ loc = [dependencies |-> <<>>]

ExtractDependenciesCall ==
    /\ pc = "deps_call"
    /\ pc' = "done"
    /\ loc' = [dependencies |-> ExtractDependencies(file.tree, SourceText(file.tree))]
    /\ UNCHANGED <<file, chunks, fs, returned>>

NextDeps == ExtractDependenciesCall

SpecDeps == InitDeps /\ [][NextDeps]_vars

\* The names held by the nodes of the given type under a parent of the
\* given type, in document order.
NamesUnder(t, parent_type, type) ==
    LET nodes == InOrder({i \in 1..Len(t) :
                    NodeType(t, i) = type /\ NodeType(t, t[i].parent) = parent_type})
    IN  [k \in 1..Len(nodes) |-> t[nodes[k]].kind.name]

\* The first occurrence of each entry.
RECURSIVE FirstOccurrences(_)
FirstOccurrences(names) ==
    IF names = <<>> THEN <<>>
    ELSE LET front == FirstOccurrences(SubSeq(names, 1, Len(names) - 1))
             last == names[Len(names)]
         IN  IF last \in {front[k] : k \in 1..Len(front)} THEN front
             ELSE Append(front, last)

\* C22: the list is, without duplicates, the qualified names of the
\* structural use declarations when there is one, otherwise the names of
\* the use statements, followed by the class names of `new ClassName` and
\* of `ClassName::class` and by the arguments of the template directives.
C22_DependencyList ==
    pc = "done" =>
        LET t == file.tree
            structural == NamesUnder(t, "namespace_use_clause", "qualified_name")
            statements == NamesUnder(t, "namespace_use_clause", "name")
            news == NamesUnder(t, "program", "object_creation_expression")
            references == NamesUnder(t, "program", "class_constant_access_expression")
            directives == [k \in 1..Len(NamesUnder(t, "program", "text")) |-> "a"]
        IN  loc.dependencies =
                FirstOccurrences((IF structural # <<>> THEN structural ELSE statements)
                                 \o news \o references \o directives)

(***************************************************************************)
(* _parse_php_file                                                        *)
(***************************************************************************)
\* _extract_class_metadata.  The model's classes have no extends or
\* implements clause, so those keys stay absent.
ExtractClassMetadata_DirectChildren(t, class_node, content) ==
    LET methods == SelectSeq(InOrder(Children(t, class_node)),
                             LAMBDA m : NodeType(t, m) = "method_declaration")
    IN  [method_count |-> Len(methods),
         method_names |-> [k \in 1..Len(methods) |->
                              GetNodeText(NameNode(t, methods[k]), content)]]

ExtractClassMetadata(t, class_node, content) ==
    LET methods == QueryNodes(t, class_node, "method_declaration")
    IN  [method_count |-> Len(methods),
         method_names |-> [k \in 1..Len(methods) |->
                              GetNodeText(NameNode(t, methods[k]), content)]]

\* _extract_method_metadata.  The model's methods carry no modifier and an
\* empty parameter list.
ExtractMethodMetadata(t, method_node, content) == [parameter_count |-> 0]

\* node.child_by_field_name("object") and ("scope"): the first token of a
\* call.
FieldNode(t, i) == Span(SourceText(t), StartChar(t, i), StartChar(t, i) + 1)

\* list(set(calls)): each entry once (in the order of first occurrence; the
\* order Python gives is unspecified).
RECURSIVE ListOfSet(_)
ListOfSet(calls) ==
    IF calls = <<>> THEN <<>>
    ELSE LET front == ListOfSet(SubSeq(calls, 1, Len(calls) - 1))
         IN  IF calls[Len(calls)] \in {front[k] : k \in 1..Len(front)} THEN front
             ELSE Append(front, calls[Len(calls)])

\* _extract_internal_method_calls: the calls in the method's body block on
\* $this and with a scope of self, parent, static or a name.
ExtractInternalMethodCalls(t, method_node, content) ==
    LET bodies == {c \in Children(t, method_node) : NodeType(t, c) = "compound_statement"}
    IN  IF bodies = {} THEN <<>>
        ELSE LET method_body == CHOOSE c \in bodies : \A d \in bodies : c <= d
                 member_calls == QueryNodes(t, method_body, "member_call_expression")
                 scoped_calls == QueryNodes(t, method_body, "scoped_call_expression")
                 memberCall(call_node) ==
                     IF /\ t[call_node].kind.object.type = "variable_name"
                        /\ GetNodeText(FieldNode(t, call_node), content) = <<"$this">>
                     THEN <<<<"self", "::">> \o GetNodeText(NameNode(t, call_node), content)>>
                     ELSE <<>>
                 scopedCall(call_node) ==
                     LET scope_text == GetNodeText(FieldNode(t, call_node), content)
                     IN  IF \/ scope_text \in {<<"self">>, <<"parent">>, <<"static">>}
                            \/ t[call_node].kind.scope.type = "name"
                         THEN <<scope_text \o <<"::">>
                                \o GetNodeText(NameNode(t, call_node), content)>>
                         ELSE <<>>
             IN  ListOfSet(
                     Flatten([k \in 1..Len(member_calls) |-> memberCall(member_calls[k])])
                     \o Flatten([k \in 1..Len(scoped_calls) |-> scopedCall(scoped_calls[k])]))

\* The locals after the read and the parse.
PhpLocals(f) ==
    [content |-> SourceText(f.tree),
     classes |-> QueryNodes(f.tree, 0, "class_declaration"),
     ci |-> 1, methods |-> <<>>, mi |-> 1]

\* One iteration of `for class_node in ...`, up to the class chunk.
PhpClassStep(f, st) ==
    LET l == st.loc
        t == f.tree
        class_node == l.classes[l.ci]
        class_name == GetNodeText(NameNode(t, class_node), l.content)
    IN  [chunks |-> Append(st.chunks,
             CodeChunk(f.file_type, class_name, f.path,
                       Node(t, class_node).start_row + 1,
                       Node(t, class_node).end_row + 1,
                       GetNodeText(Node(t, class_node), l.content),
                       ExtractClassMetadata(t, class_node, l.content),
                       ExtractDependencies(t, l.content), <<>>)),
         loc |-> [l EXCEPT !.methods = QueryNodes(t, class_node, "method_declaration"),
                           !.mi = 1]]

\* One iteration of `for method_node in ...`.
PhpMethodStep(f, st) ==
    LET l == st.loc
        t == f.tree
        class_name == GetNodeText(NameNode(t, l.classes[l.ci]), l.content)
        method_node == l.methods[l.mi]
        method_name == GetNodeText(NameNode(t, method_node), l.content)
    IN  [chunks |-> Append(st.chunks,
             CodeChunk(f.file_type \o "_method",
                       class_name \o <<"::">> \o method_name, f.path,
                       Node(t, method_node).start_row + 1,
                       Node(t, method_node).end_row + 1,
                       GetNodeText(Node(t, method_node), l.content),
                       ExtractMethodMetadata(t, method_node, l.content),
                       ExtractDependencies(t, l.content),
                       ExtractInternalMethodCalls(t, method_node, l.content))),
         loc |-> [l EXCEPT !.mi = @ + 1]]

RECURSIVE PhpRun(_, _, _)
PhpRun(f, p, st) ==
    CASE p = "php_classes" /\ st.loc.ci <= Len(st.loc.classes) ->
             PhpRun(f, "php_methods", PhpClassStep(f, st))
      [] p = "php_classes" /\ st.loc.ci > Len(st.loc.classes) -> st.chunks
      [] p = "php_methods" /\ st.loc.mi <= Len(st.loc.methods) ->
             PhpRun(f, "php_methods", PhpMethodStep(f, st))
      [] p = "php_methods" /\ st.loc.mi > Len(st.loc.methods) ->
             PhpRun(f, "php_classes", [st EXCEPT !.loc.ci = @ + 1])

\* _parse_php_file as a whole: self.chunks after the call.
ParsePhpFile(f, cs) ==
    IF f.decodable THEN PhpRun(f, "php_classes", [loc |-> PhpLocals(f), chunks |-> cs])
    ELSE cs

InitPhp ==
    /\ file \in PhpFiles
    /\ fs = NoDisk
    /\ returned = <<>>
    /\ pc = "php_open"
    /\ chunks = <<>>
    /\ loc = [content |-> <<>>, classes |-> <<>>, ci |-> 1, methods |-> <<>>, mi |-> 1]

\* open(...).read() and the parse; UnicodeDecodeError returns.
PhpOpen ==
    /\ pc = "php_open"
    /\ IF file.decodable
       THEN pc' = "php_classes" /\ loc' = PhpLocals(file)
       ELSE pc' = "done" /\ loc' = loc
    /\ UNCHANGED <<file, chunks, fs, returned>>

PhpClass ==
    /\ pc = "php_classes"
    /\ loc.ci <= Len(loc.classes)
    /\ LET st == PhpClassStep(file, [loc |-> loc, chunks |-> chunks])
       IN  chunks' = st.chunks /\ loc' = st.loc
    /\ pc' = "php_methods"
    /\ UNCHANGED <<file, fs, returned>>

PhpMethod ==
    /\ pc = "php_methods"
    /\ loc.mi <= Len(loc.methods)
    /\ LET st == PhpMethodStep(file, [loc |-> loc, chunks |-> chunks])
       IN  chunks' = st.chunks /\ loc' = st.loc
    /\ UNCHANGED <<pc, file, fs, returned>>

\* The method loop is exhausted: on to the next class.
PhpNextClass ==
    /\ pc = "php_methods"
    /\ loc.mi > Len(loc.methods)
    /\ loc' = [loc EXCEPT !.ci = @ + 1]
    /\ pc' = "php_classes"
    /\ UNCHANGED <<file, chunks, fs, returned>>

PhpReturn ==
    /\ pc = "php_classes"
    /\ loc.ci > Len(loc.classes)
    /\ pc' = "done"
    /\ UNCHANGED <<file, chunks, loc, fs, returned>>

NextPhp == PhpOpen \/ PhpClass \/ PhpMethod \/ PhpNextClass \/ PhpReturn

SpecPhp == InitPhp /\ [][NextPhp]_vars

\* The text of the original file's bytes [start_byte, end_byte).
ByteRangeText(text, node) ==
    LET a == CHOOSE k \in 0..Len(text) : Utf8Len(SubSeq(text, 1, k)) = node.start_byte
        b == CHOOSE k \in 0..Len(text) : Utf8Len(SubSeq(text, 1, k)) = node.end_byte
    IN  SubSeq(text, a + 1, b)

\* C3: the content of every class chunk and method chunk appended by
\* _parse_php_file is exactly the original file's bytes in the range
\* [start_byte, end_byte) the parser reports for the node, multi-byte
\* characters before or inside the node included.
C3_ContentIsByteRange ==
    [][/\ (pc = "php_classes" /\ Len(chunks') = Len(chunks) + 1) =>
             chunks'[Len(chunks')].content =
                 ByteRangeText(SourceText(file.tree), Node(file.tree, loc.classes[loc.ci]))
       /\ (pc = "php_methods" /\ Len(chunks') = Len(chunks) + 1) =>
             chunks'[Len(chunks')].content =
                 ByteRangeText(SourceText(file.tree), Node(file.tree, loc.methods[loc.mi]))
      ]_vars

IsClassChunk(c) == c.type = "php"
IsMethodChunk(c) == c.type = "php_method"

\* The file holds no multi-byte character.
AsciiOnly == \A i \in 1..Len(file.tree) : file.tree[i].kind.type # "comment"

NextClassChunk(k) ==
    LET later == {j \in (k + 1)..Len(chunks) : IsClassChunk(chunks[j])}
    IN  IF later = {} THEN Len(chunks) + 1
        ELSE CHOOSE j \in later : \A j2 \in later : j <= j2

C18_NoDoubleQualifiedName ==
    \A k \in 1..Len(chunks) :
        IsMethodChunk(chunks[k]) =>
            ~(/\ Len(chunks[k].name) = 3
              /\ chunks[k].name[2] = "::"
              /\ chunks[k].name[1] = chunks[k].name[3])

\* C20: no method chunk is made from a node that lies in the body of a
\* method (every method of a class is itself made a chunk).
C20_NoChunkInsideMethod ==
    [][(pc = "php_methods" /\ Len(chunks') = Len(chunks) + 1) =>
         \A a \in Ancestors(file.tree, loc.methods[loc.mi]) :
             NodeType(file.tree, a) # "method_declaration"]_vars

\* The files of the method call specification: a class with methods whose
\* body blocks hold calls on $this and on another variable, and calls with
\* the scopes self, a type name and a variable; a comment holds one
\* two-byte character.
MaxCallNodes == 5

CallKinds ==
    {[type |-> "class_declaration", name |-> "A"],
     [type |-> "method_declaration", name |-> "f"],
     [type |-> "compound_statement", name |-> ""],
     [type |-> "comment", name |-> WideChar]}
    \cup {[type |-> "member_call_expression", name |-> "m",
           object |-> [type |-> "variable_name", text |-> v]] : v \in {"$this", "$other"}}
    \cup {[type |-> "scoped_call_expression", name |-> "m", scope |-> sc] :
             sc \in {[type |-> "relative_scope", text |-> "self"],
                     [type |-> "name", text |-> "Foo"],
                     [type |-> "variable_name", text |-> "$other"]}}

\* Where the nodes of these files sit: classes and comments at the top
\* level, methods in a class, one body block in a method, calls in a body.
CallMayHold(t, p, k) ==
    CASE NodeType(t, p) = "program" -> k.type \in {"class_declaration", "comment"}
      [] NodeType(t, p) = "class_declaration" -> k.type = "method_declaration"
      [] NodeType(t, p) = "method_declaration" ->
             k.type = "compound_statement" /\ Children(t, p) = {}
      [] NodeType(t, p) = "compound_statement" ->
             k.type \in {"member_call_expression", "scoped_call_expression"}
      [] OTHER -> FALSE

RECURSIVE CallTreesOfSize(_)
CallTreesOfSize(n) ==
    IF n = 0 THEN {<<>>}
    ELSE UNION {{Append(t, [parent |-> pk[1], kind |-> pk[2]]) :
                    pk \in {x \in RightmostPath(t) \X CallKinds :
                               CallMayHold(t, x[1], x[2])}} :
                t \in CallTreesOfSize(n - 1)}

CallFiles ==
    {[name |-> APhp, path |-> APhp, file_type |-> "php", tree |-> t, decodable |-> TRUE] :
        t \in UNION {CallTreesOfSize(n) : n \in 0..MaxCallNodes}}

InitCalls ==
    /\ file \in CallFiles
    /\ fs = NoDisk
    /\ returned = <<>>
    /\ pc = "php_open"
    /\ chunks = <<>>
    /\ loc = [content |-> <<>>, classes |-> <<>>, ci |-> 1, methods |-> <<>>, mi |-> 1]

SpecCalls == InitCalls /\ [][NextPhp]_vars

\* The calls the claim counts for a method: self::m for a call on $this,
\* scope::m for a scope of self, parent, static or a type name, from the
\* call nodes inside the method's body block.
InternalCalls(t, method_node) ==
    LET inBody(c) == \E b \in Ancestors(t, c) :
                        /\ NodeType(t, b) = "compound_statement"
                        /\ t[b].parent = method_node
    IN  {<<"self", "::", t[c].kind.name>> :
            c \in {c \in 1..Len(t) : /\ "object" \in DOMAIN t[c].kind
                                    /\ t[c].kind.object.text = "$this"
                                    /\ inBody(c)}}
        \cup {<<t[c].kind.scope.text, "::", t[c].kind.name>> :
            c \in {c \in 1..Len(t) :
                     /\ "scope" \in DOMAIN t[c].kind
                     /\ \/ t[c].kind.scope.text \in {"self", "parent", "static"}
                        \/ t[c].kind.scope.type = "name"
                     /\ inBody(c)}}

\* C23: a class chunk has no method_dependencies; a method chunk has, each
\* once, exactly the calls of its body block on $this and with a scope of
\* self, parent, static or a type name.
C23_MethodDependencies ==
    [][/\ (pc = "php_classes" /\ Len(chunks') = Len(chunks) + 1) =>
             chunks'[Len(chunks')].method_dependencies = <<>>
       /\ (pc = "php_methods" /\ Len(chunks') = Len(chunks) + 1) =>
             LET deps == chunks'[Len(chunks')].method_dependencies
             IN  /\ {deps[k] : k \in 1..Len(deps)} =
                        InternalCalls(file.tree, loc.methods[loc.mi])
                 /\ \A j, k \in 1..Len(deps) : deps[j] = deps[k] => j = k]_vars

\* The node the step about to be taken makes a chunk of.
SteppedNode == IF pc = "php_classes" THEN loc.classes[loc.ci] ELSE loc.methods[loc.mi]

\* C24: the chunks of one file are appended in the order of a pre-order
\* walk: no chunk starts before a chunk appended earlier, and a method's
\* chunk is appended after the chunk of the class that declares it.
C24_PreOrder ==
    [][(pc \in {"php_classes", "php_methods"} /\ Len(chunks') = Len(chunks) + 1) =>
         LET t == file.tree
             node == SteppedNode
         IN  /\ \A j \in 1..Len(chunks) :
                    chunks[j].start_line <= chunks'[Len(chunks')].start_line
             /\ pc = "php_methods" =>
                    \E j \in 1..Len(chunks) :
                        /\ IsClassChunk(chunks[j])
                        /\ chunks[j].start_line = Node(t, t[node].parent).start_row + 1]_vars

(***************************************************************************)
(* _parse_route_file                                                      *)
(***************************************************************************)
\* _find_route_definitions: the member_call_expression nodes whose text
\* holds "Route::".
FindRouteDefinitions(t, content) ==
    LET method_calls == QueryNodes(t, 0, "member_call_expression")
        routeOf(call) ==
            LET call_text == GetNodeText(Node(t, call), content)
            IN  IF Contains(call_text, <<"Route::">>)
                THEN <<[start_line |-> Node(t, call).start_row + 1,
                        end_line |-> Node(t, call).end_row + 1,
                        content |-> call_text,
                        metadata |-> [route_definition |-> TRUE]]>>
                ELSE <<>>
    IN  Flatten([k \in 1..Len(method_calls) |-> routeOf(method_calls[k])])

\* re.search(r'Route::(\w+)\s*\(\s*[\'"]', route_text): group 1 or 'unknown'
RouteMethodMatch(s) ==
    LET hits == {i \in 1..Len(s) :
                    /\ s[i] = "Route::" /\ IsPlainWord(Tok(s, i + 1))
                    /\ Tok(s, SkipWs(s, i + 2)) = "("
                    /\ IsQuote(Tok(s, SkipWs(s, SkipWs(s, i + 2) + 1)))}
    IN  IF hits = {} THEN <<"unknown">>
        ELSE <<s[(CHOOSE i \in hits : \A j \in hits : i <= j) + 1]>>

\* The quoted span that opens at i: the position of the closing quote, or 0.
ClosingQuote(s, i) ==
    LET later == {j \in (i + 1)..Len(s) : IsQuote(s[j])}
    IN  IF later = {} THEN 0 ELSE CHOOSE j \in later : \A k \in later : j <= k

\* re.search(r'[\'"]((?:[^\'"]|\\.)*)[\'"]', route_text): group 1 or 'unknown'
RouteUriMatch(s) ==
    LET opens == {i \in 1..Len(s) : IsQuote(s[i]) /\ ClosingQuote(s, i) # 0}
    IN  IF opens = {} THEN <<"unknown">>
        ELSE LET i == CHOOSE x \in opens : \A y \in opens : x <= y
             IN  SubSeq(s, i + 1, ClosingQuote(s, i) - 1)

\* re.search(r'[\'"]((?:[^\'"]|\\.)*)@[\w]+[\'"]', route_text): group 1 or
\* 'unknown'.  The leftmost quote that is followed, before any other quote,
\* by `@word` and a quote; the greedy group runs to the last such `@`.
RouteControllerMatch(s) ==
    LET ats(i) == {j \in (i + 1)..Len(s) :
                      /\ s[j] = "@"
                      /\ \A k \in (i + 1)..(j - 1) : ~IsQuote(s[k])
                      /\ IsPlainWord(Tok(s, j + 1)) /\ IsQuote(Tok(s, j + 2))}
        opens == {i \in 1..Len(s) : IsQuote(s[i]) /\ ats(i) # {}}
    IN  IF opens = {} THEN <<"unknown">>
        ELSE LET i == CHOOSE x \in opens : \A y \in opens : x <= y
                 j == CHOOSE x \in ats(i) : \A y \in ats(i) : x >= y
             IN  SubSeq(s, i + 1, j - 1)

\* uri.replace('/', '_'), per token
SlashToUnderscore(tok) == IF tok = "/leaves" THEN "_leaves" ELSE tok

\* _extract_route_dependencies: a namespaced controller before `@action`,
\* and the name after `middleware =>`.
ExtractRouteDependencies(s) ==
    LET ctrl == {i \in 1..Len(s) :
                    /\ IsQuote(s[i]) /\ Tok(s, i + 1) \in {"App\\Leave", "App\\User"}
                    /\ Tok(s, i + 2) = "@" /\ IsPlainWord(Tok(s, i + 3))
                    /\ IsQuote(Tok(s, i + 4))}
        mw   == {i \in 1..Len(s) :
                    /\ s[i] = "middleware" /\ Tok(s, SkipWs(s, i + 1)) = "=>"
                    /\ IsQuote(Tok(s, SkipWs(s, SkipWs(s, i + 1) + 1)))
                    /\ IsQualifiedWord(Tok(s, SkipWs(s, SkipWs(s, i + 1) + 1) + 1))
                    /\ Tok(s, SkipWs(s, SkipWs(s, i + 1) + 1) + 1) # "\\Foo"
                    /\ IsQuote(Tok(s, SkipWs(s, SkipWs(s, i + 1) + 1) + 2))}
        first(S) == CHOOSE x \in S : \A y \in S : x <= y
    IN  (IF ctrl = {} THEN <<>> ELSE <<s[first(ctrl) + 1]>>)
        \o (IF mw = {} THEN <<>>
            ELSE <<s[SkipWs(s, SkipWs(s, first(mw) + 1) + 1) + 1]>>)

\* The locals after the read, the parse and _find_route_definitions.
RouteLocals(f) ==
    [content |-> SourceText(f.tree),
     routes |-> FindRouteDefinitions(f.tree, SourceText(f.tree)),
     i |-> 1]

\* One iteration of `for i, route_call in enumerate(routes)`.
RouteStep(f, st) ==
    LET l == st.loc
        route_call == l.routes[l.i]
        route_text == route_call.content
        method == RouteMethodMatch(route_text)
        uri == RouteUriMatch(route_text)
        controller == RouteControllerMatch(route_text)
    IN  [chunks |-> Append(st.chunks,
             CodeChunk("route",
                       <<"Route_">> \o method \o <<"_">>
                           \o [k \in 1..Len(uri) |-> SlashToUnderscore(uri[k])]
                           \o <<"_", ToString(l.i)>>,
                       f.path, route_call.start_line, route_call.end_line, route_text,
                       [route_definition |-> TRUE, method |-> method, uri |-> uri,
                        controller |-> controller],
                       ExtractRouteDependencies(route_text), <<>>)),
         loc |-> [l EXCEPT !.i = @ + 1]]

RECURSIVE RouteRun(_, _)
RouteRun(f, st) ==
    IF st.loc.i > Len(st.loc.routes) THEN st.chunks ELSE RouteRun(f, RouteStep(f, st))

\* _parse_route_file as a whole: self.chunks after the call.
ParseRouteFile(f, cs) ==
    IF f.decodable THEN RouteRun(f, [loc |-> RouteLocals(f), chunks |-> cs]) ELSE cs

InitRoute ==
    /\ file \in RouteFiles
    /\ fs = NoDisk
    /\ returned = <<>>
    /\ pc = "route_open"
    /\ chunks = <<>>
    /\ loc = [content |-> <<>>, routes |-> <<>>, i |-> 1]

RouteOpen ==
    /\ pc = "route_open"
    /\ IF file.decodable
       THEN pc' = "route_loop" /\ loc' = RouteLocals(file)
       ELSE pc' = "done" /\ loc' = loc
    /\ UNCHANGED <<file, chunks, fs, returned>>

RouteCall ==
    /\ pc = "route_loop"
    /\ loc.i <= Len(loc.routes)
    /\ LET st == RouteStep(file, [loc |-> loc, chunks |-> chunks])
       IN  chunks' = st.chunks /\ loc' = st.loc
    /\ UNCHANGED <<pc, file, fs, returned>>

RouteReturn ==
    /\ pc = "route_loop"
    /\ loc.i > Len(loc.routes)
    /\ pc' = "done"
    /\ UNCHANGED <<file, chunks, loc, fs, returned>>

NextRoute == RouteOpen \/ RouteCall \/ RouteReturn

SpecRoute == InitRoute /\ [][NextRoute]_vars

\* The statements of the file of the form Route::<verb>('<uri>', '<C>@<a>');
RouteStatements(t) ==
    {i \in 1..Len(t) : t[i].parent = 0 /\ t[i].kind.type = "scoped_call_expression"}

\* C6: when _parse_route_file has returned for a decodable file, every
\* statement Route::<verb>('<uri>', '<Controller>@<action>'); has a chunk of
\* type route on its line whose metadata holds method = <verb>, uri = <uri>
\* and controller = <Controller>.
C6_RouteStatementChunk ==
    (pc = "done" /\ file.decodable) =>
        \A i \in RouteStatements(file.tree) :
            \E k \in 1..Len(chunks) :
                /\ chunks[k].type = "route"
                /\ chunks[k].start_line = Node(file.tree, i).start_row + 1
                /\ chunks[k].metadata.method = <<file.tree[i].kind.name>>
                /\ chunks[k].metadata.uri = <<"/leaves">>
                /\ chunks[k].metadata.controller = <<"LeaveController">>

(***************************************************************************)
(* _parse_blade_file.  A directive with its argument is one token of the  *)
(* text; "x" is any other text.                                           *)
(***************************************************************************)
MaxBladeLen == 4

BladeAlphabet ==
    {"@section('s')", "@component('c')", "@include('a')", "@include('b')",
     "@extends('a')", "x", NL}

VBladePhp == <<"v", ".", "b", "l", "a", "d", "e", ".", "p", "h", "p">>

BladeFiles ==
    {[name |-> VBladePhp, path |-> VBladePhp, content |-> c, decodable |-> d] :
        c \in SeqsUpTo(BladeAlphabet, MaxBladeLen), d \in BOOLEAN}

\* @section\s*\(\s*['"](\w+)['"]\s*\): group 1 (<<>>: no match)
SectionArg(tok) == IF tok = "@section('s')" THEN <<"s">> ELSE <<>>

\* @component\s*\(\s*['"](\w+)['"]\s*\): group 1 (<<>>: no match)
ComponentArg(tok) == IF tok = "@component('c')" THEN <<"c">> ELSE <<>>

\* section_pattern.search(line)
SectionPatternMatches(line) ==
    \E k \in 1..Len(line) : SectionArg(line[k]) # <<>> \/ ComponentArg(line[k]) # <<>>

\* The directive a token opens with, for content.count(directive).
DirectiveOf(tok) ==
    CASE tok = "@section('s')" -> "section"
      [] tok = "@component('c')" -> "component"
      [] tok \in {"@include('a')", "@include('b')"} -> "include"
      [] tok \in {"@extends('a')", "@extends('b')"} -> "extends"
      [] OTHER -> "none"

\* _extract_blade_metadata: the count of each directive that occurs.
ExtractBladeMetadata(content) ==
    LET count(d) == Cardinality({k \in 1..Len(content) : DirectiveOf(content[k]) = d})
    IN  [d \in {x \in {"extends", "section", "yield", "include", "component"} :
                    count(x) > 0} |-> count(d)]

\* _extract_blade_dependencies: the @extends arguments, then the @include
\* arguments.
ExtractBladeDependencies(content) ==
    Flatten([k \in 1..Len(content) |-> ExtendsArg(content[k])])
    \o Flatten([k \in 1..Len(content) |-> IncludeArg(content[k])])

\* os.path.basename(file_path).replace('.blade.php', '')
BladeBaseName(name) ==
    IF EndsWith(name, <<".", "b", "l", "a", "d", "e", ".", "p", "h", "p">>)
    THEN SubSeq(name, 1, Len(name) - 10) ELSE name

\* _create_blade_chunk
CreateBladeChunk(f, lines, start_line, end_line) ==
    LET content == Join(<<NL>>, lines)
        base_name == BladeBaseName(f.name)
        sections == Flatten([k \in 1..Len(content) |-> SectionArg(content[k])])
        components == Flatten([k \in 1..Len(content) |-> ComponentArg(content[k])])
        name == IF sections # <<>> THEN base_name \o <<"_blade_", sections[1]>>
                ELSE IF components # <<>> THEN base_name \o <<"_blade_", components[1]>>
                ELSE base_name \o <<"_blade_default_", ToString(start_line)>>
    IN  CodeChunk("blade_template", name, f.path, start_line, end_line, content,
                  ExtractBladeMetadata(content), ExtractBladeDependencies(content), <<>>)

BladeLocals(f) ==
    [lines |-> SplitLines(f.content), i |-> 1, current_section |-> <<>>,
     current_start_line |-> 1]

\* The iteration with the previous section closed at line i instead of
\* line i - 1.
BladeStep_EndAtI(f, st) ==
    LET l == st.loc
        line == l.lines[l.i]
        match == SectionPatternMatches(line)
        closes == match /\ l.current_section # <<>>
    IN  [chunks |-> IF closes
                    THEN Append(st.chunks,
                             CreateBladeChunk(f, l.current_section,
                                              l.current_start_line, l.i))
                    ELSE st.chunks,
         loc |-> [l EXCEPT !.i = @ + 1,
                           !.current_section =
                               Append(IF closes THEN <<>> ELSE l.current_section, line),
                           !.current_start_line = IF match THEN l.i ELSE @]]

\* One iteration of `for i, line in enumerate(lines, 1)`.
BladeStep(f, st) ==
    LET l == st.loc
        line == l.lines[l.i]
        match == SectionPatternMatches(line)
        closes == match /\ l.current_section # <<>>
    IN  [chunks |-> IF closes
                    THEN Append(st.chunks,
                             CreateBladeChunk(f, l.current_section,
                                              l.current_start_line, l.i - 1))
                    ELSE st.chunks,
         loc |-> [l EXCEPT !.i = @ + 1,
                           !.current_section =
                               Append(IF closes THEN <<>> ELSE l.current_section, line),
                           !.current_start_line = IF match THEN l.i ELSE @]]

\* After the loop: the last section, or the whole file when it has none.
BladeFinish(f, st) ==
    IF st.loc.current_section # <<>>
    THEN Append(st.chunks,
             CreateBladeChunk(f, st.loc.current_section, st.loc.current_start_line,
                              Len(st.loc.lines)))
    ELSE st.chunks

RECURSIVE BladeRun(_, _)
BladeRun(f, st) ==
    IF st.loc.i > Len(st.loc.lines) THEN BladeFinish(f, st)
    ELSE BladeRun(f, BladeStep(f, st))

\* _parse_blade_file as a whole: self.chunks after the call.
ParseBladeFile(f, cs) ==
    IF f.decodable THEN BladeRun(f, [loc |-> BladeLocals(f), chunks |-> cs]) ELSE cs

InitBlade ==
    /\ file \in BladeFiles
    /\ fs = NoDisk
    /\ returned = <<>>
    /\ pc = "blade_open"
    /\ chunks = <<>>
    /\ loc = [lines |-> <<>>, i |-> 1, current_section |-> <<>>, current_start_line |-> 1]

BladeOpen ==
    /\ pc = "blade_open"
    /\ IF file.decodable
       THEN pc' = "blade_loop" /\ loc' = BladeLocals(file)
       ELSE pc' = "done" /\ loc' = loc
    /\ UNCHANGED <<file, chunks, fs, returned>>

BladeLine ==
    /\ pc = "blade_loop"
    /\ loc.i <= Len(loc.lines)
    /\ LET st == BladeStep(file, [loc |-> loc, chunks |-> chunks])
       IN  chunks' = st.chunks /\ loc' = st.loc
    /\ UNCHANGED <<pc, file, fs, returned>>

BladeReturn ==
    /\ pc = "blade_loop"
    /\ loc.i > Len(loc.lines)
    /\ chunks' = BladeFinish(file, [loc |-> loc, chunks |-> chunks])
    /\ pc' = "done"
    /\ UNCHANGED <<file, loc, fs, returned>>

NextBlade == BladeOpen \/ BladeLine \/ BladeReturn

SpecBlade == InitBlade /\ [][NextBlade]_vars

NoDuplicates(seq) == \A i, j \in 1..Len(seq) : i # j => seq[i] # seq[j]

\* The template names a text refers to with @extends or @include, each once,
\* in the order of their first occurrence.
FirstSeenReferences(content) ==
    CleanDeps(Flatten([k \in 1..Len(content) |->
                          ExtendsArg(content[k]) \o IncludeArg(content[k])]))

\* C9: every chunk's import_dependencies holds no duplicate and lists the
\* names in first-seen order; here for the Blade chunks, where two identical
\* @include directives must give a single entry.
C9_ImportsUniqueFirstSeen ==
    \A k \in 1..Len(chunks) :
        /\ NoDuplicates(chunks[k].import_dependencies)
        /\ chunks[k].import_dependencies = FirstSeenReferences(chunks[k].content)

\* C30: the chunks of a non-empty Blade file that was read partition its
\* lines: the first starts at line 1, each next one starts on the line
\* after the end of the one before it, the last ends at the last line,
\* every chunk after the first starts on a line with an @section or
\* @component directive, and no line lies in two chunks.
C30_BladeChunksPartition ==
    (pc = "done" /\ file.decodable /\ file.content # <<>>) =>
        LET lines == SplitLines(file.content)
            n == Len(chunks)
        IN  /\ n >= 1
            /\ chunks[1].start_line = 1
            /\ chunks[n].end_line = Len(lines)
            /\ \A k \in 1..n : chunks[k].start_line <= chunks[k].end_line
            /\ \A k \in 2..n :
                  /\ chunks[k].start_line = chunks[k - 1].end_line + 1
                  /\ SectionPatternMatches(lines[chunks[k].start_line])
            /\ \A j, k \in 1..n :
                  j # k => (chunks[j].start_line..chunks[j].end_line)
                               \cap (chunks[k].start_line..chunks[k].end_line) = {}

\* A file of three lines has given a chunk for its first two lines and a
\* chunk for the directive on its third.
C30_Witness ==
    /\ pc = "done"
    /\ Len(chunks) = 2
    /\ chunks[1].start_line = 1 /\ chunks[1].end_line = 2
    /\ chunks[2].start_line = 3 /\ chunks[2].end_line = 3

(***************************************************************************)
(* _parse_env_file                                                        *)
(***************************************************************************)
MaxEnvLen == 5

EnvAlphabet == {"K", "#", " ", NL}

DotEnv == <<".", "e", "n", "v">>

EnvFiles ==
    {[name |-> DotEnv, path |-> DotEnv, content |-> c, decodable |-> d] :
        c \in SeqsUpTo(EnvAlphabet, MaxEnvLen), d \in BOOLEAN}

\* The locals after the read: lines, the loop position, current_line and
\* current_content.
EnvLocals(f) ==
    [lines |-> SplitLines(f.content), i |-> 1, current_line |-> 1,
     current_content |-> <<>>]

\* if line or current_content
EnvEmits(line, cur) == line # <<>> \/ cur # <<>>

\* One iteration of `for line in lines`, on st = [loc, chunks].
EnvStep(f, st) ==
    LET l    == st.loc
        line == Strip(l.lines[l.i])
        cur  == IF line # <<>> /\ ~StartsWith(line, <<"#">>)
                THEN Append(l.current_content, line)
                ELSE l.current_content
    IN  IF EnvEmits(line, cur)
        THEN [chunks |-> Append(st.chunks,
                  CodeChunk("env",
                            <<"Env_">> \o f.name \o <<"_", ToString(l.current_line)>>,
                            f.path, l.current_line, l.current_line,
                            IF line # <<>> THEN line ELSE Join(<<NL>>, cur),
                            [env_variable |-> TRUE], <<>>, <<>>)),
              loc |-> [l EXCEPT !.i = @ + 1, !.current_line = @ + 1,
                                !.current_content = <<>>]]
        ELSE [chunks |-> st.chunks,
              loc |-> [l EXCEPT !.i = @ + 1, !.current_content = cur]]

RECURSIVE EnvRun(_, _)
EnvRun(f, st) ==
    IF st.loc.i > Len(st.loc.lines) THEN st.chunks ELSE EnvRun(f, EnvStep(f, st))

\* _parse_env_file as a whole: self.chunks after the call.
ParseEnvFile(f, cs) ==
    IF f.decodable THEN EnvRun(f, [loc |-> EnvLocals(f), chunks |-> cs]) ELSE cs

InitEnv ==
    /\ file \in EnvFiles
    /\ fs = NoDisk
    /\ returned = <<>>
    /\ pc = "env_open"
    /\ chunks = <<>>
    /\ loc = [lines |-> <<>>, i |-> 1, current_line |-> 1, current_content |-> <<>>]

\* open(...).read(); UnicodeDecodeError returns without a chunk.
EnvOpen ==
    /\ pc = "env_open"
    /\ IF file.decodable
       THEN pc' = "env_loop" /\ loc' = EnvLocals(file)
       ELSE pc' = "done" /\ loc' = loc
    /\ UNCHANGED <<file, chunks, fs, returned>>

EnvLine ==
    /\ pc = "env_loop"
    /\ loc.i <= Len(loc.lines)
    /\ LET st == EnvStep(file, [loc |-> loc, chunks |-> chunks])
       IN  chunks' = st.chunks /\ loc' = st.loc
    /\ UNCHANGED <<pc, file, fs, returned>>

EnvReturn ==
    /\ pc = "env_loop"
    /\ loc.i > Len(loc.lines)
    /\ pc' = "done"
    /\ UNCHANGED <<file, chunks, loc, fs, returned>>

NextEnv == EnvOpen \/ EnvLine \/ EnvReturn

SpecEnv == InitEnv /\ [][NextEnv]_vars

\* The lines of the original file (1-indexed) that hold a KEY=VALUE entry:
\* non-empty after stripping and not a comment.
EnvEntryLines(content) ==
    LET ls == SplitLines(content)
    IN  {i \in 1..Len(ls) : Strip(ls[i]) # <<>> /\ ~StartsWith(Strip(ls[i]), <<"#">>)}

\* C1: when _parse_env_file has returned for a decodable file, it has emitted
\* exactly one chunk per line that is non-empty after stripping and is not a
\* comment; blank lines and comment lines give no chunk.
C1_OneChunkPerEntryLine ==
    (pc = "done" /\ file.decodable) =>
        Len(chunks) = Cardinality(EnvEntryLines(file.content))

\* C2: every chunk emitted by _parse_env_file has start_line = end_line = the
\* 1-indexed number, in the original file, of the line being processed when
\* the chunk was appended.
C2_EnvLineNumbers ==
    [][Len(chunks') = Len(chunks) + 1 =>
         /\ chunks'[Len(chunks')].start_line = loc.i
         /\ chunks'[Len(chunks')].end_line = loc.i]_vars

(***************************************************************************)
(* _parse_config_file                                                     *)
(***************************************************************************)
\* os.path.basename(file_path)
BaseName(path) ==
    LET slashes == {k \in 1..Len(path) : path[k] = "/"}
    IN  IF slashes = {} THEN path
        ELSE SubSeq(path, (CHOOSE k \in slashes : \A j \in slashes : j <= k) + 1, Len(path))

\* One iteration of `for return_node in return_nodes`: the array's chunk, or
\* the whole file when the statement returns no array.
ConfigStep(f, content, return_node, cs) ==
    LET t == f.tree
        arrays == {c \in Children(t, return_node) :
                      NodeType(t, c) = "array_creation_expression"}
    IN  IF arrays # {}
        THEN LET array_node == CHOOSE c \in arrays : \A d \in arrays : c <= d
             IN  Append(cs, CodeChunk("config", BaseName(f.path), f.path,
                                      Node(t, array_node).start_row + 1,
                                      Node(t, array_node).end_row + 1,
                                      GetNodeText(Node(t, array_node), content),
                                      [config_file |-> TRUE], <<>>, <<>>))
        ELSE Append(cs, CodeChunk("config", BaseName(f.path), f.path, 1,
                                  CountChar(content, NL, Len(content)) + 1, content,
                                  [config_file |-> TRUE], <<>>, <<>>))

RECURSIVE ConfigRun(_, _, _, _)
ConfigRun(f, content, return_nodes, cs) ==
    IF return_nodes = <<>> THEN cs
    ELSE ConfigRun(f, content, Tail(return_nodes),
                   ConfigStep(f, content, Head(return_nodes), cs))

\* _parse_config_file as a whole: self.chunks after the call.
ParseConfigFile(f, cs) ==
    IF f.decodable
    THEN ConfigRun(f, SourceText(f.tree), QueryNodes(f.tree, 0, "return_statement"), cs)
    ELSE cs

\* Config files: return statements of an array or of a number, comments,
\* and text outside the PHP tags.
MaxConfigNodes == 4

ConfigKinds ==
    {[type |-> "return_statement", name |-> "return"],
     [type |-> "array_creation_expression", name |-> "[]"],
     [type |-> "integer", name |-> "1"],
     [type |-> "comment", name |-> WideChar],
     [type |-> "text", name |-> "x"]}

ConfigPhp == <<"c", ".", "p", "h", "p">>

ConfigFiles ==
    {[name |-> ConfigPhp, path |-> ConfigPhp, file_type |-> "config", tree |-> t,
      decodable |-> d] :
        t \in {x \in UNION {TreesOfSize(n, ConfigKinds) : n \in 0..MaxConfigNodes} :
                  WellFormed(x)},
        d \in BOOLEAN}

\* The locals after the read, the parse and the query for return statements.
ConfigLocals(f) ==
    [content |-> SourceText(f.tree),
     return_nodes |-> QueryNodes(f.tree, 0, "return_statement"),
     i |-> 1]

InitConfig ==
    /\ file \in ConfigFiles
    /\ fs = NoDisk
    /\ returned = <<>>
    /\ pc = "config_open"
    /\ chunks = <<>>
    /\ loc = [content |-> <<>>, return_nodes |-> <<>>, i |-> 1]

\* open(...).read() and the parse; UnicodeDecodeError returns.
ConfigOpen ==
    /\ pc = "config_open"
    /\ IF file.decodable
       THEN pc' = "config_loop" /\ loc' = ConfigLocals(file)
       ELSE pc' = "done" /\ loc' = loc
    /\ UNCHANGED <<file, chunks, fs, returned>>

ConfigReturnNode ==
    /\ pc = "config_loop"
    /\ loc.i <= Len(loc.return_nodes)
    /\ chunks' = ConfigStep(file, loc.content, loc.return_nodes[loc.i], chunks)
    /\ loc' = [loc EXCEPT !.i = @ + 1]
    /\ UNCHANGED <<pc, file, fs, returned>>

ConfigReturn ==
    /\ pc = "config_loop"
    /\ loc.i > Len(loc.return_nodes)
    /\ pc' = "done"
    /\ UNCHANGED <<file, chunks, loc, fs, returned>>

NextConfig == ConfigOpen \/ ConfigReturnNode \/ ConfigReturn

SpecConfig == InitConfig /\ [][NextConfig]_vars

\* The array literals returned by the file's return statements.
ReturnedArrays(t) ==
    {a \in 1..Len(t) : /\ NodeType(t, a) = "array_creation_expression"
                       /\ NodeType(t, t[a].parent) = "return_statement"}

\* C19: a config file with non-whitespace content gives exactly one chunk,
\* tagged config_file: the span of the returned array literal when the file
\* has a `return <array>` statement, and the whole file, line 1 to the last
\* line, otherwise.
C19_OneConfigChunk ==
    (pc = "done" /\ file.decodable /\ Strip(SourceText(file.tree)) # <<>>) =>
        /\ Len(chunks) = 1
        /\ chunks[1].metadata.config_file
        /\ LET t == file.tree
               arrays == ReturnedArrays(t)
           IN  IF arrays # {}
               THEN \E a \in arrays :
                        /\ chunks[1].start_line = Node(t, a).start_row + 1
                        /\ chunks[1].end_line = Node(t, a).end_row + 1
               ELSE /\ chunks[1].start_line = 1
                    /\ chunks[1].end_line = Len(SplitLines(SourceText(t)))

(***************************************************************************)
(* analyze_codebase: the walk over the directory tree.  The tree on disk  *)
(* is fs = [root, dirs, files]: dirs is a sequence of [parent, name] (0   *)
(* is the root), files a set of [dir, name].  What a file holds is fixed  *)
(* by its name.                                                           *)
(***************************************************************************)
MaxDirs == 2
MaxFiles == 2
MaxRuns == 2
MaxBadFiles == 1

DirOrder ==
    <<<<"a", "p", "p">>,
      <<"v", "e", "n", "d", "o", "r">>,
      <<"n", "o", "d", "e", "_", "m", "o", "d", "u", "l", "e", "s">>,
      <<".", "g", "i", "t">>,
      <<"R", "o", "u", "t", "e", "s">>,
      <<"v", "i", "e", "w", "s">>,
      <<"b", "u", "i", "l", "d", "e", "r">>,
      <<"c", "o", "n", "f", "i", "g">>>>

DirNames == {DirOrder[k] : k \in 1..Len(DirOrder)}

Rank(name) == CHOOSE k \in 1..Len(DirOrder) : DirOrder[k] = name

DotPhp == <<".", "p", "h", "p">>
DotBladePhp == <<".", "b", "l", "a", "d", "e", ".", "p", "h", "p">>

FileNames == {APhp, VBladePhp}

\* The project root the analyzer is called with; the second one lies under
\* a directory named dist.
RootPaths == {<<"/", "p">>, <<"/", "d", "i", "s", "t", "/", "p">>}

\* a.php: a class with a method, a named route and a returned array.
SamplePhpTree ==
    <<[parent |-> 0, kind |-> [type |-> "class_declaration", name |-> "A"]],
      [parent |-> 1, kind |-> [type |-> "method_declaration", name |-> "f"]],
      [parent |-> 0, kind |-> [type |-> "member_call_expression", name |-> "->name"]],
      [parent |-> 3, kind |-> [type |-> "scoped_call_expression", name |-> "get"]],
      [parent |-> 0, kind |-> [type |-> "return_statement", name |-> "return"]],
      [parent |-> 5, kind |-> [type |-> "array_creation_expression", name |-> "[]"]]>>

\* What the PHP grammar makes of a text without `<?php`: one text node.
TextTree == <<[parent |-> 0, kind |-> [type |-> "text", name |-> "x"]]>>

SampleBlade == <<"@section('s')", NL, "@include('a')", NL, "@include('a')">>

SampleEnv == <<"K", NL, "#">>

\* A file on disk is readable text ("ok"), holds bytes that are not UTF-8
\* ("undecodable"), or cannot be opened ("unreadable": no permission, a
\* dangling link).
FileStates == {"ok", "undecodable", "unreadable"}

\* The file x = [dir, name, state] at that path, as the parsers read it;
\* content is the text that is left when the bytes that do not decode are
\* dropped.
FileOnDisk(x, path, file_type) ==
    [name |-> x.name, path |-> path, file_type |-> file_type,
     decodable |-> x.state # "undecodable", readable |-> x.state # "unreadable",
     content |-> CASE x.name = VBladePhp -> SampleBlade
                   [] x.name = DotEnv -> SampleEnv
                   [] OTHER -> SourceText(SamplePhpTree),
     tree |-> IF x.name = APhp THEN SamplePhpTree ELSE TextTree]

\* Sibling directories have different names and stand in a fixed order in
\* dirs (the order of listing is chosen at each walk).
DirTrees(n) ==
    {ds \in [1..n -> [parent : 0..(n - 1), name : DirNames]] :
        /\ \A i \in 1..n : ds[i].parent < i
        /\ \A i, j \in 1..n :
              (i < j /\ ds[i].parent = ds[j].parent) => Rank(ds[i].name) < Rank(ds[j].name)}

\* At most MaxFiles files, no two of one name in one directory, at most
\* MaxBadFiles of them not "ok".
FileSets(n) ==
    LET slots == (0..n) \X FileNames
    IN  UNION {{{[dir |-> df[1], name |-> df[2],
                  state |-> IF df \in DOMAIN bad THEN bad[df] ELSE "ok"] : df \in S} :
                   bad \in UNION {[B -> FileStates \ {"ok"}] :
                                     B \in {X \in SUBSET S : Cardinality(X) <= MaxBadFiles}}} :
               S \in {X \in SUBSET slots : Cardinality(X) <= MaxFiles}}

\* The trees on disk, and a root path at which there is no directory.
Disks ==
    {[root |-> r, dirs |-> ds, files |-> S, exists |-> TRUE] :
        r \in RootPaths,
        <<ds, S>> \in UNION {DirTrees(n) \X FileSets(n) : n \in 0..MaxDirs}}
    \cup {[root |-> r, dirs |-> <<>>, files |-> {}, exists |-> FALSE] : r \in RootPaths}

\* os.path.join(root, name) down from the project root: what os.walk yields
\* as `root` for directory d.
RECURSIVE DirPath(_, _)
DirPath(disk, d) ==
    IF d = 0 THEN disk.root
    ELSE DirPath(disk, disk.dirs[d].parent) \o <<"/">> \o disk.dirs[d].name

\* os.path.relpath(root, laravel_root).split(os.sep): "." for the root.
RECURSIVE FolderNames(_, _)
FolderNames(disk, d) ==
    IF d = 0 THEN << <<".">> >>
    ELSE IF disk.dirs[d].parent = 0 THEN <<disk.dirs[d].name>>
    ELSE Append(FolderNames(disk, disk.dirs[d].parent), disk.dirs[d].name)

ExcludedDirs ==
    {<<".", "g", "i", "t">>,
     <<"_", "_", "p", "y", "c", "a", "c", "h", "e", "_", "_">>,
     <<"n", "o", "d", "e", "_", "m", "o", "d", "u", "l", "e", "s">>,
     <<"v", "e", "n", "d", "o", "r">>,
     <<"s", "t", "o", "r", "a", "g", "e", "/", "f", "r", "a", "m", "e", "w", "o", "r", "k">>,
     <<"s", "t", "o", "r", "a", "g", "e", "/", "l", "o", "g", "s">>,
     <<"s", "t", "o", "r", "a", "g", "e", "/", "a", "p", "p", "/", "p", "u", "b", "l", "i", "c">>,
     <<"p", "u", "b", "l", "i", "c", "/", "b", "u", "i", "l", "d">>,
     <<"p", "u", "b", "l", "i", "c", "/", "h", "o", "t">>,
     <<"b", "o", "o", "t", "s", "t", "r", "a", "p", "/", "c", "a", "c", "h", "e">>,
     <<"t", "a", "r", "g", "e", "t">>,
     <<"b", "u", "i", "l", "d">>,
     <<"d", "i", "s", "t">>,
     <<".", "v", "e", "n", "v">>,
     <<"v", "e", "n", "v">>}

\* The test before `continue`: an excluded name occurs in the path os.walk
\* yields, or a component of the relative path starts with a dot.
IsSkipped_OwnName(disk, d) ==
    d # 0 /\ (disk.dirs[d].name \in ExcludedDirs \/ StartsWith(disk.dirs[d].name, <<".">>))

IsSkipped(disk, d) ==
    \/ \E excluded \in ExcludedDirs : Contains(DirPath(disk, d), excluded)
    \/ \E k \in 1..Len(FolderNames(disk, d)) : StartsWith(FolderNames(disk, d)[k], <<".">>)

\* str.lower(), on the letters the directory names hold
LowerChar(c) == IF c = "R" THEN "r" ELSE c

Lower(name) == [k \in 1..Len(name) |-> LowerChar(name[k])]

\* The keys of folder_parsers.
FolderParsers ==
    {<<"r", "o", "u", "t", "e", "s">>, <<"c", "o", "n", "f", "i", "g">>,
     <<"e", "n", "v">>, <<"v", "i", "e", "w", "s">>}

\* The parser of the first folder name that is a key of folder_parsers;
\* <<>> when there is none.
ParserFor(folder_names) ==
    LET hits == {k \in 1..Len(folder_names) : Lower(folder_names[k]) \in FolderParsers}
    IN  IF hits = {} THEN <<>>
        ELSE Lower(folder_names[CHOOSE k \in hits : \A j \in hits : k <= j])

\* One file of the folder under its parser: _parse_route_folder,
\* _parse_config_folder, _parse_env_folder, _parse_blade_folder and, without
\* a parser, the fallback to _parse_php_folder.
ParseFolderFile(parser, folder_path, x, cs) ==
    LET file_name == x.name
        file_path == folder_path \o <<"/">> \o file_name
        f(file_type) == FileOnDisk(x, file_path, file_type)
    IN  CASE parser = <<"r", "o", "u", "t", "e", "s">> ->
                 IF EndsWith(file_name, DotPhp) THEN ParseRouteFile(f("php"), cs) ELSE cs
          [] parser = <<"c", "o", "n", "f", "i", "g">> ->
                 IF EndsWith(file_name, DotPhp) THEN ParseConfigFile(f("php"), cs) ELSE cs
          [] parser = <<"e", "n", "v">> ->
                 IF file_name = DotEnv THEN ParseEnvFile(f("env"), cs) ELSE cs
          [] parser = <<"v", "i", "e", "w", "s">> ->
                 IF EndsWith(file_name, DotBladePhp) THEN ParseBladeFile(f("blade_template"), cs)
                 ELSE cs
          [] OTHER ->
                 IF EndsWith(file_name, DotPhp) \/ EndsWith(file_name, DotBladePhp)
                 THEN ParsePhpFile(f(IF EndsWith(file_name, DotPhp)
                                     THEN "php" ELSE "blade_template"), cs)
                 ELSE cs

\* Whether the folder's parser opens the file: the test on the file name
\* before its _parse_*_file call.
OpensFile(parser, file_name) ==
    CASE parser \in {<<"r", "o", "u", "t", "e", "s">>, <<"c", "o", "n", "f", "i", "g">>} ->
             EndsWith(file_name, DotPhp)
      [] parser = <<"e", "n", "v">> -> file_name = DotEnv
      [] parser = <<"v", "i", "e", "w", "s">> -> EndsWith(file_name, DotBladePhp)
      [] OTHER -> EndsWith(file_name, DotPhp) \/ EndsWith(file_name, DotBladePhp)

\* open(file_path, 'r', encoding='utf-8') in a try that catches only
\* UnicodeDecodeError: the OSError of a file that cannot be opened leaves
\* the parser, the folder loop and analyze_codebase.
OpenRaises(parser, x) == x.state = "unreadable" /\ OpensFile(parser, x.name)

\* The files of one folder in their listing order, up to the first call
\* that raises: self.chunks afterwards, and whether an exception is on its
\* way out.
RECURSIVE ParseFolder(_, _, _, _)
ParseFolder(parser, folder_path, files, cs) ==
    IF files = <<>> THEN [chunks |-> cs, raised |-> FALSE]
    ELSE IF OpenRaises(parser, Head(files)) THEN [chunks |-> cs, raised |-> TRUE]
    ELSE ParseFolder(parser, folder_path, Tail(files),
                     ParseFolderFile(parser, folder_path, Head(files), cs))

\* The listings os.walk can give of a set of names: every order.
Listings(S) ==
    {l \in [1..Cardinality(S) -> S] : \A i, j \in 1..Cardinality(S) : i # j => l[i] # l[j]}

\* self.chunks = [] at the start of a run
ResetChunks_Keep(old) == old

ResetChunks(old) == <<>>

InitWalk ==
    /\ fs \in Disks
    /\ returned = <<>>
    /\ pc = "idle"
    /\ chunks = <<>>
    /\ file = <<>>
    /\ loc = [stack |-> <<>>]

\* analyze_codebase(laravel_root) is called, also after a call that
\* raised: os.walk starts at the root; where there is no directory it
\* yields nothing (its onerror is None, the error of the listing is
\* dropped).
Analyze ==
    /\ pc \in {"idle", "raised"}
    /\ Len(returned) < MaxRuns
    /\ chunks' = ResetChunks(chunks)
    /\ loc' = [stack |-> IF fs.exists THEN <<0>> ELSE <<>>]
    /\ pc' = "walk"
    /\ UNCHANGED <<file, fs, returned>>

\* One iteration of `for root, dirs, files in os.walk(...)`: the directory
\* is skipped or its files are parsed; os.walk goes on into its
\* subdirectories either way.  An exception of a parser ends the call.
WalkDir ==
    /\ pc = "walk"
    /\ loc.stack # <<>>
    /\ LET d == Head(loc.stack)
       IN  \E dirs \in Listings({c \in 1..Len(fs.dirs) : fs.dirs[c].parent = d}),
              files \in Listings({y \in fs.files : y.dir = d}) :
               LET done == IF IsSkipped(fs, d) THEN [chunks |-> chunks, raised |-> FALSE]
                           ELSE ParseFolder(ParserFor(FolderNames(fs, d)),
                                            DirPath(fs, d), files, chunks)
               IN  /\ chunks' = done.chunks
                   /\ IF done.raised
                      THEN pc' = "raised" /\ loc' = [stack |-> <<>>]
                      ELSE pc' = "walk" /\ loc' = [stack |-> dirs \o Tail(loc.stack)]
    /\ UNCHANGED <<file, fs, returned>>

\* return self.chunks
AnalyzeReturn ==
    /\ pc = "walk"
    /\ loc.stack = <<>>
    /\ returned' = Append(returned, chunks)
    /\ pc' = "idle"
    /\ UNCHANGED <<file, chunks, loc, fs>>

Next == Analyze \/ WalkDir \/ AnalyzeReturn

Spec == InitWalk /\ [][Next]_vars

\* The chunks of a result as a multiset of keys.
RECURSIVE KeyBag(_)
KeyBag(cs) ==
    IF cs = <<>> THEN EmptyBag
    ELSE SetToBag({<<Head(cs).file_path, Head(cs).name, Head(cs).start_line,
                     Head(cs).end_line, Head(cs).content>>}) (+) KeyBag(Tail(cs))

\* C5: the results of any two runs of analyze_codebase over the same tree
\* are equal as multisets of (file_path, name, start_line, end_line,
\* content), whatever order the directories and files were listed in; no
\* chunk of an earlier run is carried over.
C5_RunsAgree ==
    \A i, j \in 1..Len(returned) : KeyBag(returned[i]) = KeyBag(returned[j])

\* Two runs have returned chunks of several files, in different orders.
C5_Witness ==
    /\ Len(returned) >= 2
    /\ returned[1] # returned[2]
    /\ returned[1] # <<>>

\* The directories between the root and directory d, d included.
RECURSIVE DirsAbove(_, _)
DirsAbove(disk, d) ==
    IF d = 0 THEN {} ELSE {d} \cup DirsAbove(disk, disk.dirs[d].parent)

\* A directory named vendor or node_modules, or with a dot-prefixed name,
\* lies between the root and the file.
UnderExcluded(disk, x) ==
    \E d \in DirsAbove(disk, x.dir) :
        \/ disk.dirs[d].name \in {<<"v", "e", "n", "d", "o", "r">>, <<"n", "o", "d", "e", "_", "m", "o", "d", "u", "l", "e", "s">>}
        \/ StartsWith(disk.dirs[d].name, <<".">>)

FilePath(disk, x) == DirPath(disk, x.dir) \o <<"/">> \o x.name

\* C7: no chunk of analyze_codebase belongs to a file with a directory
\* named vendor or node_modules, or a dot-prefixed directory, between the
\* root and the file.
C7_NoChunkUnderExcluded ==
    \A x \in fs.files :
        UnderExcluded(fs, x) =>
            \A k \in 1..Len(chunks) : chunks[k].file_path # FilePath(fs, x)

\* A run has returned chunks while a PHP file lies under an excluded
\* directory.
C7_Witness ==
    /\ Len(returned) >= 1
    /\ returned[1] # <<>>
    /\ \E x \in fs.files : x.name = APhp /\ UnderExcluded(fs, x)

\* The completed run r returned a chunk of file x.
HasChunkOf(r, x) ==
    \E k \in 1..Len(returned[r]) : returned[r][k].file_path = FilePath(fs, x)

\* C28: a readable PHP file with a class that sits directly in the root
\* directory has chunks in the result of every run.
C28_RootFilesProcessed ==
    \A r \in 1..Len(returned) :
        \A x \in fs.files :
            (x.dir = 0 /\ x.name = APhp /\ x.state = "ok") => HasChunkOf(r, x)

\* A component of the path of directory d below the root is an excluded
\* name or starts with a dot.
HasExcludedComponent(disk, d) ==
    \E a \in DirsAbove(disk, d) :
        disk.dirs[a].name \in ExcludedDirs \/ StartsWith(disk.dirs[a].name, <<".">>)

\* C29: a readable PHP file that its folder's parser takes, in a directory
\* below the root none of whose path components is an excluded name or
\* dot-prefixed, has chunks in the result of every run.
C29_SkipsByComponentOnly ==
    \A r \in 1..Len(returned) :
        \A x \in fs.files :
            (/\ x.dir # 0
             /\ x.name = APhp
             /\ x.state = "ok"
             /\ OpensFile(ParserFor(FolderNames(fs, x.dir)), x.name)
             /\ ~HasExcludedComponent(fs, x.dir)) => HasChunkOf(r, x)

\* C13: no run of analyze_codebase is ended by the failure of one file: a
\* file that cannot be decoded or opened gives no chunk and the walk goes
\* on to the other files and returns.
C13_FileFailureNeverAborts == pc # "raised"

\* C14: a run of analyze_codebase over a root path at which there is no
\* directory returns no chunk collection.
C14_MissingRootReturnsNothing ==
    [][(pc = "walk" /\ ~fs.exists) => returned' = returned]_vars

(***************************************************************************)
(* laravel_processor.py: chunk_using_regex.  A text is a sequence of      *)
(* pieces: a function signature, a class signature, a brace, a line break *)
(* or other text.  The texts hold no modifier, no `extends`, no return    *)
(* type and no namespace statement.                                       *)
(***************************************************************************)
MaxPieces == 6

RegexPieces ==
    {<<"function", " ", "f", "(", ")", " ">>, <<"class", " ", "A", " ">>,
     <<"{">>, <<"}">>, <<NL>>, <<"x">>}

\* The readable files of every text, and a file that cannot be opened.
RegexFiles ==
    {[name |-> APhp, path |-> APhp, content |-> Flatten(ps), readable |-> TRUE] :
        ps \in SeqsUpTo(RegexPieces, MaxPieces)}
    \cup {[name |-> APhp, path |-> APhp, content |-> <<"x">>, readable |-> FALSE]}

\* ^ under re.MULTILINE, at the 1-indexed position p
LineStart(s, p) == p = 1 \/ (p <= Len(s) + 1 /\ s[p - 1] = NL)

\* [a-zA-Z_\x7f-\xff][a-zA-Z0-9_\x7f-\xff]*
IsIdentifier(tok) == IsPlainWord(tok) \/ tok = "x"

\* class_pattern tried at position p: the position of the `{` the match
\* ends with, or 0.
ClassMatchEnd(s, p) ==
    LET q == SkipWs(s, p)
        n == SkipWs(s, q + 1)
        b == SkipWs(s, n + 1)
    IN  IF /\ LineStart(s, p) /\ Tok(s, q) = "class"
           /\ n > q + 1 /\ IsIdentifier(Tok(s, n)) /\ Tok(s, b) = "{"
        THEN b ELSE 0

\* function_pattern tried at position p: the position of the `{` the match
\* ends with, or 0.  [^)]* runs to the first `)`.
FunctionMatchEnd(s, p) ==
    LET q == SkipWs(s, p)
        n == SkipWs(s, q + 1)
        r == SkipWs(s, n + 1)
        closes == {c \in (r + 1)..Len(s) : s[c] = ")"}
        c == IF closes = {} THEN 0 ELSE CHOOSE x \in closes : \A y \in closes : x <= y
        b == SkipWs(s, c + 1)
    IN  IF /\ LineStart(s, p) /\ Tok(s, q) = "function"
           /\ n > q + 1 /\ IsIdentifier(Tok(s, n)) /\ Tok(s, r) = "("
           /\ c # 0 /\ Tok(s, b) = "{"
        THEN b ELSE 0

PatternMatchEnd(def_type, s, p) ==
    IF def_type = "class" THEN ClassMatchEnd(s, p) ELSE FunctionMatchEnd(s, p)

\* pattern.finditer(content) from position pos on: the matches from left to
\* right, none overlapping; start and end are 0-indexed offsets.
RECURSIVE FindIter(_, _, _)
FindIter(def_type, s, pos) ==
    LET starts == {p \in pos..Len(s) : PatternMatchEnd(def_type, s, p) # 0}
    IN  IF starts = {} THEN <<>>
        ELSE LET p == CHOOSE x \in starts : \A y \in starts : x <= y
                 b == PatternMatchEnd(def_type, s, p)
                 q == SkipWs(s, p)
             IN  <<[start |-> p - 1, end |-> b, type |-> def_type,
                    name |-> <<s[SkipWs(s, q + 1)]>>]>>
                 \o FindIter(def_type, s, b + 1)

\* definitions.sort(key=lambda x: x["match"].start())
RECURSIVE SortByStart(_)
SortByStart(defs) ==
    IF defs = <<>> THEN <<>>
    ELSE LET k == CHOOSE i \in 1..Len(defs) :
                     \A j \in 1..Len(defs) :
                         defs[i].start < defs[j].start \/ (defs[i].start = defs[j].start /\ i <= j)
         IN  <<defs[k]>> \o SortByStart(SubSeq(defs, 1, k - 1) \o SubSeq(defs, k + 1, Len(defs)))

\* namespace_pattern.search(content): group(1).strip(), or "" without a match
NamespaceMatch(s) ==
    LET semi(n) == {c \in (n + 1)..Len(s) : s[c] = ";"}
        hits == {p \in 1..Len(s) :
                    /\ LineStart(s, p) /\ Tok(s, SkipWs(s, p)) = "namespace"
                    /\ SkipWs(s, SkipWs(s, p) + 1) > SkipWs(s, p) + 1
                    /\ Tok(s, SkipWs(s, SkipWs(s, p) + 1)) # ";"
                    /\ semi(SkipWs(s, SkipWs(s, p) + 1)) # {}}
    IN  IF hits = {} THEN <<>>
        ELSE LET p == CHOOSE x \in hits : \A y \in hits : x <= y
                 n == SkipWs(s, SkipWs(s, p) + 1)
                 e == CHOOSE x \in semi(n) : \A y \in semi(n) : x <= y
             IN  Strip(SubSeq(s, n, e - 1))

\* A scan that takes the end of the text for the closing brace.
RECURSIVE ScanBraces_ToEnd(_, _, _)
ScanBraces_ToEnd(text_content, current_pos, brace_level) ==
    IF current_pos >= Len(text_content) THEN Len(text_content) - 1
    ELSE LET char == text_content[current_pos + 1]
         IN  IF char = "{" THEN ScanBraces_ToEnd(text_content, current_pos + 1, brace_level + 1)
             ELSE IF char = "}" /\ brace_level - 1 = 0 THEN current_pos
             ELSE IF char = "}"
             THEN ScanBraces_ToEnd(text_content, current_pos + 1, brace_level - 1)
             ELSE ScanBraces_ToEnd(text_content, current_pos + 1, brace_level)

\* The while loop of _extract_block_with_braces from the 0-indexed position
\* current_pos on: the offset of the closing brace, or -1.
RECURSIVE ScanBraces(_, _, _)
ScanBraces(text_content, current_pos, brace_level) ==
    IF current_pos >= Len(text_content) THEN -1
    ELSE LET char == text_content[current_pos + 1]
         IN  IF char = "{" THEN ScanBraces(text_content, current_pos + 1, brace_level + 1)
             ELSE IF char = "}"
             THEN IF brace_level - 1 = 0 THEN current_pos
                  ELSE ScanBraces(text_content, current_pos + 1, brace_level - 1)
             ELSE ScanBraces(text_content, current_pos + 1, brace_level)

\* What _extract_block_with_braces slices once the braces are found.
BlockText(text_content, match_start_offset, open_brace_index, current_pos) ==
    PySlice(text_content, open_brace_index, current_pos + 1)

\* _extract_block_with_braces: (block_text, end offset), (None, -1) as
\* found = FALSE.
ExtractBlockWithBraces(text_content, match_start_offset) ==
    LET opens == {k \in match_start_offset..(Len(text_content) - 1) :
                     text_content[k + 1] = "{"}
        none == [found |-> FALSE, block |-> <<>>, end |-> -1]
    IN  IF opens = {} THEN none
        ELSE LET open_brace_index == CHOOSE x \in opens : \A y \in opens : x <= y
                 current_pos == ScanBraces(text_content, open_brace_index + 1, 1)
             IN  IF current_pos = -1 THEN none
                 ELSE [found |-> TRUE,
                       block |-> BlockText(text_content, match_start_offset,
                                           open_brace_index, current_pos),
                       end |-> current_pos + 1]

\* The locals after the read and the sort of the definitions.
RegexLocals(f) ==
    [content |-> f.content,
     current_namespace |-> NamespaceMatch(f.content),
     definitions |-> SortByStart(FindIter("class", f.content, 1)
                                 \o FindIter("function", f.content, 1)),
     i |-> 1]

\* One iteration of `for definition in definitions`.
RegexStep(f, st) ==
    LET l == st.loc
        match == l.definitions[l.i]
        name == match.name
        block == ExtractBlockWithBraces(l.content, match.start)
        start_line == CountChar(l.content, NL, match.start) + 1
        end_line == start_line + CountChar(block.block, NL, Len(block.block))
    IN  [chunks |-> IF block.found /\ block.block # <<>>
                    THEN Append(st.chunks,
                             [content |-> block.block,
                              metadata |->
                                  [file |-> f.path, type |-> match.type,
                                   namespace |-> l.current_namespace,
                                   class_name |-> IF match.type = "class" THEN name ELSE <<>>,
                                   function_name |->
                                       IF match.type = "function" THEN name ELSE <<>>,
                                   full_name |-> IF l.current_namespace # <<>>
                                                 THEN l.current_namespace \o <<"\\">> \o name
                                                 ELSE name,
                                   start_line |-> start_line, end_line |-> end_line]])
                    ELSE st.chunks,
         loc |-> [l EXCEPT !.i = @ + 1]]

\* After the loop: the whole file when no definition gave a chunk.
RegexFinish(f, st) ==
    IF st.chunks = <<>> /\ Strip(st.loc.content) # <<>>
    THEN <<[content |-> st.loc.content,
            metadata |-> [file |-> f.path, type |-> "file_content_regex",
                          full_name |-> BaseName(f.path), start_line |-> 1,
                          end_line |-> CountChar(st.loc.content, NL, Len(st.loc.content)) + 1]]>>
    ELSE st.chunks

RECURSIVE RegexRun(_, _)
RegexRun(f, st) ==
    IF st.loc.i > Len(st.loc.definitions) THEN RegexFinish(f, st)
    ELSE RegexRun(f, RegexStep(f, st))

\* chunk_using_regex as a whole: the list it returns, [] when the open
\* raises.
ChunkUsingRegex(f) ==
    IF ~f.readable \/ Strip(f.content) = <<>> THEN <<>>
    ELSE RegexRun(f, [loc |-> RegexLocals(f), chunks |-> <<>>])

InitRegex ==
    /\ file \in RegexFiles
    /\ fs = NoDisk
    /\ returned = <<>>
    /\ pc = "regex_open"
    /\ chunks = <<>>
    /\ loc = [content |-> <<>>, current_namespace |-> <<>>, definitions |-> <<>>, i |-> 1]

\* The read; a file that cannot be opened or holds only white space
\* returns [] at once.
RegexOpen ==
    /\ pc = "regex_open"
    /\ IF ~file.readable \/ Strip(file.content) = <<>>
       THEN pc' = "done" /\ loc' = loc
       ELSE pc' = "regex_loop" /\ loc' = RegexLocals(file)
    /\ UNCHANGED <<file, chunks, fs, returned>>

RegexDefinition ==
    /\ pc = "regex_loop"
    /\ loc.i <= Len(loc.definitions)
    /\ LET st == RegexStep(file, [loc |-> loc, chunks |-> chunks])
       IN  chunks' = st.chunks /\ loc' = st.loc
    /\ UNCHANGED <<pc, file, fs, returned>>

RegexReturn ==
    /\ pc = "regex_loop"
    /\ loc.i > Len(loc.definitions)
    /\ chunks' = RegexFinish(file, [loc |-> loc, chunks |-> chunks])
    /\ pc' = "done"
    /\ UNCHANGED <<file, loc, fs, returned>>

NextRegex == RegexOpen \/ RegexDefinition \/ RegexReturn

SpecRegex == InitRegex /\ [][NextRegex]_vars

\* The nesting depth at position j counted from the brace at position open.
Depth(s, open, j) ==
    Cardinality({k \in open..j : s[k] = "{"}) - Cardinality({k \in open..j : s[k] = "}"})

\* The first `}` after open at which the depth is back to zero (0: none).
MatchingClose(s, open) ==
    LET zeros == {j \in (open + 1)..Len(s) : s[j] = "}" /\ Depth(s, open, j) = 0}
    IN  IF zeros = {} THEN 0 ELSE CHOOSE j \in zeros : \A k \in zeros : j <= k

\* C10: the chunk that chunk_using_regex appends for a class or function
\* signature match holds the source from the start of the signature (its
\* first keyword) to the matching close brace of the block.
C10_SpanFromSignature ==
    [][(pc = "regex_loop" /\ loc.i <= Len(loc.definitions)
           /\ Len(chunks') = Len(chunks) + 1) =>
         LET match == loc.definitions[loc.i]
         IN  chunks'[Len(chunks')].content =
                 SubSeq(loc.content, SkipWs(loc.content, match.start + 1),
                        MatchingClose(loc.content, match.end))]_vars

\* The 1-indexed line of the character at the 1-indexed position p.
LineOf(s, p) == CountChar(s, NL, p - 1) + 1

\* C26: a chunk of chunk_using_regex for a class or function has as
\* start_line the line on which the signature begins and as end_line the
\* line of the matching close brace.
C26_RegexLineSpan ==
    [][(pc = "regex_loop" /\ loc.i <= Len(loc.definitions)
           /\ Len(chunks') = Len(chunks) + 1) =>
         LET match == loc.definitions[loc.i]
             md == chunks'[Len(chunks')].metadata
         IN  /\ md.start_line = LineOf(loc.content, SkipWs(loc.content, match.start + 1))
             /\ md.end_line = LineOf(loc.content, MatchingClose(loc.content, match.end))]_vars

\* The definition's opening brace has a matching close brace.
IsClosed(s, match) == MatchingClose(s, match.end) # 0

\* C11: in chunk_using_regex an iteration over a definition whose opening
\* brace is never closed appends nothing and the loop goes on; an iteration
\* over a definition with balanced braces appends that definition's chunk;
\* the return keeps the chunks that were appended.
C11_UnclosedSkipped ==
    [][(pc = "regex_loop") =>
         IF loc.i <= Len(loc.definitions)
         THEN LET match == loc.definitions[loc.i]
              IN  /\ pc' = "regex_loop" /\ loc'.i = loc.i + 1
                  /\ IF IsClosed(loc.content, match)
                     THEN /\ Len(chunks') = Len(chunks) + 1
                          /\ SubSeq(chunks', 1, Len(chunks)) = chunks
                          /\ chunks'[Len(chunks')].metadata.type = match.type
                          /\ chunks'[Len(chunks')].metadata.full_name = match.name
                     ELSE chunks' = chunks
         ELSE pc' = "done" /\ (chunks # <<>> => chunks' = chunks)]_vars

\* A file with an unclosed definition and a balanced one has been chunked:
\* the balanced one has its chunk.
C11_Witness ==
    /\ pc = "done"
    /\ \E i, j \in 1..Len(loc.definitions) :
          /\ ~IsClosed(loc.content, loc.definitions[i])
          /\ IsClosed(loc.content, loc.definitions[j])
    /\ Len(chunks) = Cardinality({j \in 1..Len(loc.definitions) :
                                     IsClosed(loc.content, loc.definitions[j])})

\* C12: a readable file with non-whitespace content in which
\* chunk_using_regex finds no definition gets exactly one chunk, from line 1
\* to the file's number of lines (a final line break opens no further
\* line).
C12_WholeFileFallback ==
    (/\ pc = "done" /\ file.readable
     /\ Strip(file.content) # <<>> /\ loc.definitions = <<>>) =>
        /\ Len(chunks) = 1
        /\ chunks[1].metadata.start_line = 1
        /\ chunks[1].metadata.end_line = Len(SplitLines(file.content))

(***************************************************************************)
(* laravel_processor.py: chunk_using_treesitter and chunk_codebase, the   *)
(* walk the upload service runs over the project directory.               *)
(***************************************************************************)
\* _extract_node_text: the bytes of the node, decoded.
ExtractNodeText(node, content) ==
    LET bytes_before(k) == Utf8Len(SubSeq(content, 1, k))
        a == CHOOSE k \in 0..Len(content) : bytes_before(k) = node.start_byte
        b == CHOOSE k \in 0..Len(content) : bytes_before(k) = node.end_byte
    IN  SubSeq(content, a + 1, b)

\* name.split("\\")[-1]
LastPart(name) ==
    LET seps == {k \in 1..Len(name) : name[k] = "\\"}
    IN  IF seps = {} THEN name
        ELSE SubSeq(name, (CHOOSE k \in seps : \A j \in seps : j <= k) + 1, Len(name))

\* The chunk _traverse_node makes of a method or function node.
FunctionChunk(t, node, content, file_path, current_namespace, current_class_name) ==
    LET node_type == NodeType(t, node)
        function_name == ExtractNodeText(NameNode(t, node), content)
        with_class == current_class_name # <<>> /\ LastPart(current_class_name) # function_name
        class_part == IF with_class /\ node_type = "method_declaration"
                      THEN LastPart(current_class_name) ELSE <<>>
        qualified_prefix ==
            IF current_namespace # <<>> /\ class_part # <<>>
            THEN current_namespace \o <<"\\">> \o class_part
            ELSE current_namespace \o class_part
        full_function_name ==
            IF qualified_prefix # <<>> /\ node_type = "method_declaration"
            THEN qualified_prefix \o <<"::">> \o function_name
            ELSE IF qualified_prefix # <<>>
            THEN qualified_prefix \o <<"\\">> \o function_name
            ELSE function_name
    IN  [content |-> ExtractNodeText(Node(t, node), content),
         metadata |->
             [file |-> file_path,
              type |-> IF node_type = "method_declaration" THEN "method" ELSE "function",
              namespace |-> current_namespace,
              class_name |-> IF current_class_name # <<>> /\ node_type = "method_declaration"
                             THEN LastPart(current_class_name) ELSE <<>>,
              function_name |-> function_name,
              full_name |-> full_function_name,
              start_line |-> Node(t, node).start_row + 1,
              end_line |-> Node(t, node).end_row + 1]]

\* _traverse_node: a method or function is a chunk and is not descended
\* into; a namespace or class sets the context of its subtree.
RECURSIVE TraverseNode(_, _, _, _, _, _)
TraverseNode(t, node, content, file_path, current_namespace, current_class_name) ==
    LET node_type == NodeType(t, node)
        ns == IF node_type = "namespace_definition"
              THEN ExtractNodeText(NameNode(t, node), content) ELSE current_namespace
        cls == IF node_type = "class_declaration"
               THEN (IF current_namespace # <<>> THEN current_namespace \o <<"\\">> ELSE <<>>)
                    \o ExtractNodeText(NameNode(t, node), content)
               ELSE current_class_name
        cs == InOrder(Children(t, node))
    IN  IF node_type \in {"method_declaration", "function_definition"}
        THEN <<FunctionChunk(t, node, content, file_path, current_namespace,
                             current_class_name)>>
        ELSE Flatten([k \in 1..Len(cs) |->
                         TraverseNode(t, cs[k], content, file_path, ns, cls)])

\* The whole file as one chunk when the tree gave no chunk.
TreesitterFallback(f, cs) ==
    IF cs # <<>> THEN cs
    ELSE <<[content |-> f.content,
            metadata |->
                [file |-> f.path, type |-> "file_content", namespace |-> <<>>,
                 class_name |-> <<>>, function_name |-> <<>>,
                 full_name |-> BaseName(f.path), start_line |-> 1,
                 end_line |-> CountChar(f.content, NL, Len(f.content)) + 1]]>>

\* chunk_using_treesitter: the chunks of the tree, or the whole file when
\* the tree gives none; [] when the open raises (the except clauses).
ChunkUsingTreesitter(f) ==
    IF ~f.readable \/ Strip(f.content) = <<>> THEN <<>>
    ELSE TreesitterFallback(f, TraverseNode(f.tree, 0, f.content, f.path, <<>>, <<>>))

\* The files of the chunk_using_treesitter specification: the trees of the
\* _parse_php_file specification, a file of white space, and a file that
\* cannot be opened.
MaxNamespaceNodes == 4

NamespaceKinds ==
    {[type |-> "namespace_definition", name |-> "N", braced |-> b] : b \in BOOLEAN}
    \cup {[type |-> "class_declaration", name |-> "A"],
          [type |-> "method_declaration", name |-> "f"],
          [type |-> "function_definition", name |-> "g"]}

\* The statement `namespace N;` has no body.
NamespaceTrees ==
    {t \in UNION {TreesOfSize(n, NamespaceKinds) : n \in 0..MaxNamespaceNodes} :
        \A i \in 1..Len(t) :
            (t[i].kind.type = "namespace_definition" /\ ~t[i].kind.braced) =>
                Children(t, i) = {}}

TreesitterFiles ==
    {[name |-> APhp, path |-> APhp, content |-> SourceText(t), tree |-> t,
      readable |-> TRUE] :
        t \in UNION {TreesOfSize(n, PhpKinds) : n \in 0..MaxNodes} \cup NamespaceTrees}
    \cup {[name |-> APhp, path |-> APhp, content |-> c, tree |-> <<>>, readable |-> r] :
             <<c, r>> \in {<<<<" ", NL>>, TRUE>>, <<<<"x">>, FALSE>>}}

InitTreesitter ==
    /\ file \in TreesitterFiles
    /\ fs = NoDisk
    /\ returned = <<>>
    /\ pc = "treesitter_open"
    /\ chunks = <<>>
    /\ loc \in {[parser |-> p] : p \in BOOLEAN}

\* The parser test and the read; without the parser, on a file that cannot
\* be opened or on white space the call returns [].
TreesitterOpen ==
    /\ pc = "treesitter_open"
    /\ pc' = IF ~loc.parser \/ ~file.readable \/ Strip(file.content) = <<>>
             THEN "done" ELSE "treesitter_traverse"
    /\ UNCHANGED <<file, chunks, loc, fs, returned>>

\* chunks.extend(self._traverse_node(tree.root_node, ...))
TreesitterTraverse ==
    /\ pc = "treesitter_traverse"
    /\ chunks' = chunks \o TraverseNode(file.tree, 0, file.content, file.path, <<>>, <<>>)
    /\ pc' = "treesitter_fallback"
    /\ UNCHANGED <<file, loc, fs, returned>>

TreesitterReturn ==
    /\ pc = "treesitter_fallback"
    /\ chunks' = TreesitterFallback(file, chunks)
    /\ pc' = "done"
    /\ UNCHANGED <<file, loc, fs, returned>>

NextTreesitter == TreesitterOpen \/ TreesitterTraverse \/ TreesitterReturn

SpecTreesitter == InitTreesitter /\ [][NextTreesitter]_vars

\* The method and function declarations _traverse_node reaches: those not
\* inside another one, in document order.
EmittedDeclarations(t) ==
    InOrder({i \in 1..Len(t) :
        /\ NodeType(t, i) \in {"method_declaration", "function_definition"}
        /\ \A a \in Ancestors(t, i) :
               NodeType(t, a) \notin {"method_declaration", "function_definition"}})

\* The top-level node a node sits in (the node itself at the top level).
TopLevel(t, i) == CHOOSE a \in Ancestors(t, i) \cup {i} : a # 0 /\ t[a].parent = 0

\* The namespace a declaration is in the scope of: that of the braced
\* namespace around it, else that of the last `namespace N;` statement
\* before it, else none.
NamespaceInScope(t, i) ==
    LET around == {a \in Ancestors(t, i) : NodeType(t, a) = "namespace_definition"}
        before == {a \in 1..Len(t) : /\ NodeType(t, a) = "namespace_definition"
                                     /\ ~t[a].kind.braced
                                     /\ t[a].parent = 0
                                     /\ a < TopLevel(t, i)}
    IN  IF around # {} THEN <<t[CHOOSE a \in around : \A b \in around : b <= a].kind.name>>
        ELSE IF before # {}
        THEN <<t[CHOOSE a \in before : \A b \in before : b <= a].kind.name>>
        ELSE <<>>

\* The files with namespace declarations, chunked with the parser loaded.
NamespaceCase ==
    /\ pc = "done"
    /\ loc.parser
    /\ file.readable
    /\ file.tree \in NamespaceTrees

\* C21: every method or function chunk of _traverse_node carries the
\* namespace its declaration is in the scope of, in metadata.namespace and
\* as the prefix of full_name, for the braced form and for the statement
\* form; a declaration outside every class carries no class name.
C21_NamespaceInScope ==
    NamespaceCase =>
        LET t == file.tree
            emitted == EmittedDeclarations(t)
        IN  emitted # <<>> =>
                /\ Len(chunks) = Len(emitted)
                /\ \A k \in 1..Len(emitted) :
                       LET md == chunks[k].metadata
                           ns == NamespaceInScope(t, emitted[k])
                           in_class == \E a \in Ancestors(t, emitted[k]) :
                                          NodeType(t, a) = "class_declaration"
                       IN  /\ md.namespace = ns
                           /\ StartsWith(md.full_name, ns)
                           /\ ~in_class =>
                                  /\ md.class_name = <<>>
                                  /\ md.full_name =
                                         (IF ns # <<>> THEN ns \o <<"\\">> ELSE <<>>)
                                         \o md.function_name

\* A loop body that falls back to the regex chunker for single files.
ChunkFile_RegexForTemplates(parser, dirpath, x, cs) ==
    LET f == FileOnDisk(x, dirpath \o <<"/">> \o x.name, "php")
    IN  IF EndsWith(x.name, DotPhp)
        THEN cs \o (IF parser /\ ~EndsWith(x.name, DotBladePhp)
                    THEN ChunkUsingTreesitter(f) ELSE ChunkUsingRegex(f))
        ELSE cs

\* The body of `for filename in filenames` for one file.
ChunkFile(parser, dirpath, x, cs) ==
    LET filename == x.name
        full_path == dirpath \o <<"/">> \o filename
        f == FileOnDisk(x, full_path, "php")
    IN  IF EndsWith(filename, DotPhp)
        THEN cs \o (IF parser THEN ChunkUsingTreesitter(f) ELSE ChunkUsingRegex(f))
        ELSE cs

RECURSIVE ChunkFiles(_, _, _, _)
ChunkFiles(parser, dirpath, filenames, cs) ==
    IF filenames = <<>> THEN cs
    ELSE ChunkFiles(parser, dirpath, Tail(filenames),
                    ChunkFile(parser, dirpath, Head(filenames), cs))

MaxChunkRuns == 1

\* A LaravelProcessor over the project directory; parser tells whether the
\* tree-sitter parser could be loaded.  chunk_codebase never looks into the
\* text of the root path: one root path is enough.
InitChunk ==
    /\ fs \in {disk \in Disks : disk.root = <<"/", "p">>}
    /\ returned = <<>>
    /\ pc = "idle"
    /\ chunks = <<>>
    /\ file = <<>>
    /\ loc \in {[stack |-> <<>>, parser |-> p] : p \in BOOLEAN}

\* chunk_codebase() is called: chunks = [] and os.walk starts at the root.
ChunkCodebase ==
    /\ pc = "idle"
    /\ Len(returned) < MaxChunkRuns
    /\ chunks' = <<>>
    /\ loc' = [loc EXCEPT !.stack = IF fs.exists THEN <<0>> ELSE <<>>]
    /\ pc' = "walk"
    /\ UNCHANGED <<file, fs, returned>>

\* One iteration of `for dirpath, _, filenames in os.walk(self.root_path)`.
ChunkDir ==
    /\ pc = "walk"
    /\ loc.stack # <<>>
    /\ LET d == Head(loc.stack)
       IN  \E dirs \in Listings({c \in 1..Len(fs.dirs) : fs.dirs[c].parent = d}),
              filenames \in Listings({y \in fs.files : y.dir = d}) :
               /\ loc' = [loc EXCEPT !.stack = dirs \o Tail(loc.stack)]
               /\ chunks' = ChunkFiles(loc.parser, DirPath(fs, d), filenames, chunks)
    /\ UNCHANGED <<pc, file, fs, returned>>

\* return chunks
ChunkReturn ==
    /\ pc = "walk"
    /\ loc.stack = <<>>
    /\ returned' = Append(returned, chunks)
    /\ pc' = "idle"
    /\ UNCHANGED <<file, chunks, loc, fs>>

NextChunk == ChunkCodebase \/ ChunkDir \/ ChunkReturn

SpecChunk == InitChunk /\ [][NextChunk]_vars

\* C8: no chunk of chunk_codebase belongs to a file with a directory named
\* vendor or node_modules between the root and the file.
C8_NoChunkUnderVendor ==
    \A x \in fs.files :
        (\E d \in DirsAbove(fs, x.dir) :
             fs.dirs[d].name \in {<<"v", "e", "n", "d", "o", "r">>,
                                  <<"n", "o", "d", "e", "_", "m", "o", "d", "u", "l", "e", "s">>})
            => \A k \in 1..Len(chunks) : chunks[k].metadata.file # FilePath(fs, x)

\* The chunk types each strategy writes into metadata.type.
TreesitterTypes == {"method", "function", "file_content"}
RegexTypes == {"class", "function", "file_content_regex"}

\* C15: the processor keeps the parser it was constructed with or without;
\* without it every chunk of a run comes from chunk_using_regex and the
\* run returns, with it every chunk comes from chunk_using_treesitter.
C15_OneStrategyPerRun ==
    [][/\ loc'.parser = loc.parser
       /\ \A k \in 1..Len(chunks') :
              chunks'[k].metadata.type \in
                  (IF loc.parser THEN TreesitterTypes ELSE RegexTypes)
       /\ (pc = "walk" /\ loc.stack = <<>>) =>
              (pc' = "idle" /\ returned' = Append(returned, chunks))]_vars

\* A processor without the parser has returned the chunks of two files, a
\* class file and a template.
C15_Witness ==
    /\ ~loc.parser
    /\ Len(returned) = 1
    /\ \E i, j \in 1..Len(returned[1]) :
          /\ returned[1][i].metadata.type = "class"
          /\ returned[1][j].metadata.type = "file_content_regex"

(***************************************************************************)
(* The extractors side by side: one file handed to one of _parse_php_file, *)
(* _parse_route_file, _parse_config_file, _parse_env_file,                 *)
(* _parse_blade_file, chunk_using_regex or chunk_using_treesitter.         *)
(***************************************************************************)
InitExtractors ==
    \/ InitPhp
    \/ InitRoute
    \/ InitConfig
    \/ InitEnv
    \/ InitBlade
    \/ InitRegex
    \/ InitTreesitter

NextExtractors ==
    \/ NextPhp
    \/ NextRoute
    \/ NextConfig
    \/ NextEnv
    \/ NextBlade
    \/ NextRegex
    \/ NextTreesitter

SpecExtractors == InitExtractors /\ [][NextExtractors]_vars

\* The line numbers of a chunk: fields of a CodeChunk, metadata entries of
\* the laravel_processor dictionaries.
StartLine(c) == IF "start_line" \in DOMAIN c THEN c.start_line ELSE c.metadata.start_line
EndLine(c) == IF "end_line" \in DOMAIN c THEN c.end_line ELSE c.metadata.end_line

\* C17: every chunk of every extractor has 1 <= start_line <= end_line.
C17_LinesOrdered ==
    \A k \in 1..Len(chunks) :
        1 <= StartLine(chunks[k]) /\ StartLine(chunks[k]) <= EndLine(chunks[k])

\* An extractor has returned several chunks, one of them spanning more than
\* one line and one starting below the first line.
C17_Witness ==
    /\ pc = "done"
    /\ \E j, k \in 1..Len(chunks) :
          /\ StartLine(chunks[j]) < EndLine(chunks[j])
          /\ StartLine(chunks[k]) > 1

(***************************************************************************)
(* utility.py: get_file_type.  Paths are strings; the function normalises  *)
(* the path with Path(...).as_posix() and tests substrings in a fixed      *)
(* order.                                                                  *)
(***************************************************************************)
MaxParts == 2

\* The pieces paths are joined from: the directory conventions, file names,
\* and the empty and "." components that as_posix() removes.
PathSegments ==
    {
     "app/Http/Controllers", "app/Models", "routes", "database/seeders",
     "database/factories", "database/migrations", "resources/views",
     "app/Http/Middleware", "app/Http/Requests", "app/Services", "config",
     "app/Providers", "app/Console/Commands", "app/Events",
     "app/Listeners", "app/Jobs", "app/Notifications", "app/Rules",
     "app/Exceptions/Handler.php", "app/Helpers", "bootstrap/app.php",
     "public/index.php", "tests", "x.php", "x.blade.php", "", ".", "app/",
     "Models" }

RECURSIVE JoinPath(_)
JoinPath(parts) ==
    IF Len(parts) = 1 THEN parts[1]
    ELSE parts[1] \o "/" \o JoinPath(Tail(parts))

TypePaths == {JoinPath(parts) : parts \in UNION {[1..k -> PathSegments] : k \in 1..MaxParts}}

RECURSIVE SplitPath(_)
SplitPath(s) ==
    LET slashes == {i \in 1..Len(s) : SubSeq(s, i, i) = "/"}
    IN  IF slashes = {} THEN <<s>>
        ELSE LET k == CHOOSE i \in slashes : \A j \in slashes : i <= j
             IN  <<SubSeq(s, 1, k - 1)>> \o SplitPath(SubSeq(s, k + 1, Len(s)))

\* Path(s).as_posix(): empty and "." components are dropped, repeated and
\* trailing slashes with them; exactly two leading slashes are kept; the
\* empty path is ".".
AsPosix(s) ==
    LET IsPart(p) == p # "" /\ p # "."
        parts == SelectSeq(SplitPath(s), IsPart)
        root == IF StartsWith(s, "//") /\ ~StartsWith(s, "///") THEN "//"
                ELSE IF StartsWith(s, "/") THEN "/" ELSE ""
    IN  IF parts = <<>> THEN (IF root = "" THEN "." ELSE root)
        ELSE root \o JoinPath(parts)

\* get_file_type with the config test ahead of the service test.
GetFileType_ConfigBeforeService(file_path_str) ==
    LET normalized_path == AsPosix(file_path_str)
    IN
        IF Contains(normalized_path, "app/Http/Controllers") THEN "controller"
        ELSE IF Contains(normalized_path, "app/Models") THEN "model"
        ELSE IF Contains(normalized_path, "routes") THEN "route"
        ELSE IF Contains(normalized_path, "database/seeders") THEN "seeder"
        ELSE IF Contains(normalized_path, "database/factories") THEN "factory"
        ELSE IF Contains(normalized_path, "database/migrations") THEN "migration"
        ELSE IF Contains(normalized_path, "resources/views") /\ EndsWith(normalized_path, ".blade.php") THEN "blade_template"
        ELSE IF Contains(normalized_path, "app/Http/Middleware") THEN "middleware"
        ELSE IF Contains(normalized_path, "app/Http/Requests") THEN "form_request"
        ELSE IF Contains(normalized_path, "config") THEN "config"
        ELSE IF Contains(normalized_path, "app/Services") THEN "service"
        ELSE IF Contains(normalized_path, "app/Providers") THEN "provider"
        ELSE IF Contains(normalized_path, "app/Console/Commands") THEN "command"
        ELSE IF Contains(normalized_path, "app/Events") THEN "event"
        ELSE IF Contains(normalized_path, "app/Listeners") THEN "listener"
        ELSE IF Contains(normalized_path, "app/Jobs") THEN "job"
        ELSE IF Contains(normalized_path, "app/Notifications") THEN "notification"
        ELSE IF Contains(normalized_path, "app/Rules") THEN "validation_rule"
        ELSE IF Contains(normalized_path, "app/Exceptions/Handler.php") THEN "exception_handler"
        ELSE IF Contains(normalized_path, "app/Helpers") THEN "helper"
        ELSE IF Contains(normalized_path, "bootstrap/app.php") THEN "bootstrap_script"
        ELSE IF Contains(normalized_path, "public/index.php") THEN "public_entry_script"
        ELSE IF Contains(normalized_path, "tests") THEN "test"
        ELSE "unknown"

GetFileType(file_path_str) ==
    LET normalized_path == AsPosix(file_path_str)
    IN
        IF Contains(normalized_path, "app/Http/Controllers") THEN "controller"
        ELSE IF Contains(normalized_path, "app/Models") THEN "model"
        ELSE IF Contains(normalized_path, "routes") THEN "route"
        ELSE IF Contains(normalized_path, "database/seeders") THEN "seeder"
        ELSE IF Contains(normalized_path, "database/factories") THEN "factory"
        ELSE IF Contains(normalized_path, "database/migrations") THEN "migration"
        ELSE IF Contains(normalized_path, "resources/views") /\ EndsWith(normalized_path, ".blade.php") THEN "blade_template"
        ELSE IF Contains(normalized_path, "app/Http/Middleware") THEN "middleware"
        ELSE IF Contains(normalized_path, "app/Http/Requests") THEN "form_request"
        ELSE IF Contains(normalized_path, "app/Services") THEN "service"
        ELSE IF Contains(normalized_path, "config") THEN "config"
        ELSE IF Contains(normalized_path, "app/Providers") THEN "provider"
        ELSE IF Contains(normalized_path, "app/Console/Commands") THEN "command"
        ELSE IF Contains(normalized_path, "app/Events") THEN "event"
        ELSE IF Contains(normalized_path, "app/Listeners") THEN "listener"
        ELSE IF Contains(normalized_path, "app/Jobs") THEN "job"
        ELSE IF Contains(normalized_path, "app/Notifications") THEN "notification"
        ELSE IF Contains(normalized_path, "app/Rules") THEN "validation_rule"
        ELSE IF Contains(normalized_path, "app/Exceptions/Handler.php") THEN "exception_handler"
        ELSE IF Contains(normalized_path, "app/Helpers") THEN "helper"
        ELSE IF Contains(normalized_path, "bootstrap/app.php") THEN "bootstrap_script"
        ELSE IF Contains(normalized_path, "public/index.php") THEN "public_entry_script"
        ELSE IF Contains(normalized_path, "tests") THEN "test"
        ELSE "unknown"

InitType ==
    /\ pc = "type_call"
    /\ file \in {[path |-> p] : p \in TypePaths}
    /\ chunks = <<>>
    /\ loc = [file_type |-> "none"]
    /\ fs = NoDisk
    /\ returned = <<>>

GetFileTypeCall ==
    /\ pc = "type_call"
    /\ pc' = "done"
    /\ loc' = [file_type |-> GetFileType(file.path)]
    /\ UNCHANGED <<file, chunks, fs, returned>>

NextType == GetFileTypeCall

SpecType == InitType /\ [][NextType]_vars

\* The rules in their order: the substring a rule looks for and its type.
TypeRules ==
    <<
     <<"app/Http/Controllers", "controller">>, <<"app/Models", "model">>,
     <<"routes", "route">>, <<"database/seeders", "seeder">>,
     <<"database/factories", "factory">>,
     <<"database/migrations", "migration">>,
     <<"resources/views", "blade_template">>,
     <<"app/Http/Middleware", "middleware">>,
     <<"app/Http/Requests", "form_request">>,
     <<"app/Services", "service">>, <<"config", "config">>,
     <<"app/Providers", "provider">>,
     <<"app/Console/Commands", "command">>, <<"app/Events", "event">>,
     <<"app/Listeners", "listener">>, <<"app/Jobs", "job">>,
     <<"app/Notifications", "notification">>,
     <<"app/Rules", "validation_rule">>,
     <<"app/Exceptions/Handler.php", "exception_handler">>,
     <<"app/Helpers", "helper">>,
     <<"bootstrap/app.php", "bootstrap_script">>,
     <<"public/index.php", "public_entry_script">>, <<"tests", "test">> >>

RuleMatches(k, path) ==
    /\ Contains(path, TypeRules[k][1])
    /\ TypeRules[k][2] = "blade_template" => EndsWith(path, ".blade.php")

\* C16: get_file_type returns the type of the first rule, in the fixed
\* order, that matches the normalised path, and "unknown" exactly when no
\* rule matches.
C16_FirstMatchingRule ==
    pc = "done" =>
        LET path == AsPosix(file.path)
            hits == {k \in 1..Len(TypeRules) : RuleMatches(k, path)}
        IN  /\ hits # {} =>
                loc.file_type = TypeRules[CHOOSE k \in hits : \A j \in hits : k <= j][2]
            /\ hits = {} <=> loc.file_type = "unknown"

\* A service whose path also holds "config" has been classified by the
\* earlier rule.
C16_Witness ==
    /\ pc = "done"
    /\ file.path = "app/Services/config"
    /\ loc.file_type = "service"

(***************************************************************************)
(* laravel_processor.py: _get_files_to_process.  Names and paths are       *)
(* strings.                                                                *)
(***************************************************************************)
MaxScanDirs == 2
MaxScanFiles == 2

ScanDirOrder == <<"app", "storage", "framework", "vendor", ".git">>
ScanFileNames == {".env", "a.env", "a.php", "A.PHP", "a.exe", ".DS_Store"}

AllowedExtensions ==
    {".php", ".blade.php", ".js", ".vue", ".ts", ".css", ".scss",
     ".env", ".md", ".txt", ".json", ".yaml", ".yml"}

ScanExcludedDirs ==
    {".git", "__pycache__", "node_modules", "vendor",
     "storage/framework", "storage/logs", "storage/app/public",
     "public/build", "public/hot", "bootstrap/cache",
     "target", "build", "dist", ".venv", "venv"}

ExcludedFiles == {".DS_Store", "Thumbs.db", ".phpunit.result.cache"}

ScanRank(name) == CHOOSE k \in 1..Len(ScanDirOrder) : ScanDirOrder[k] = name

\* The project trees: sibling directories have different names.
ScanDisks ==
    {[root |-> "/p", dirs |-> ds, files |-> S, exists |-> TRUE] :
        <<ds, S>> \in UNION {
            {d \in [1..n -> [parent : 0..(n - 1),
                             name : {ScanDirOrder[k] : k \in 1..Len(ScanDirOrder)}]] :
                /\ \A i \in 1..n : d[i].parent < i
                /\ \A i, j \in 1..n :
                      (i < j /\ d[i].parent = d[j].parent) =>
                          ScanRank(d[i].name) < ScanRank(d[j].name)}
            \X {X \in SUBSET {[dir |-> df[1], name |-> df[2]] :
                                 df \in (0..n) \X ScanFileNames} :
                   Cardinality(X) <= MaxScanFiles} : n \in 0..MaxScanDirs}}

\* os.path.join(root, d) down from project_path.
RECURSIVE ScanPath(_, _)
ScanPath(disk, d) ==
    IF d = 0 THEN disk.root
    ELSE ScanPath(disk, disk.dirs[d].parent) \o "/" \o disk.dirs[d].name

\* str.lower() on the letters of the file names
RECURSIVE StrLower(_)
StrLower(str) ==
    IF Len(str) = 0 THEN ""
    ELSE LET c == SubSeq(str, 1, 1)
         IN  (CASE c = "A" -> "a" [] c = "P" -> "p" [] c = "H" -> "h" [] OTHER -> c)
             \o StrLower(SubSeq(str, 2, Len(str)))

\* os.path.splitext(name)[1]: from the last dot on, unless only dots stand
\* before it.
SplitExt(name) ==
    LET dots == {i \in 1..Len(name) : SubSeq(name, i, i) = "."}
    IN  IF dots = {} THEN ""
        ELSE LET last == CHOOSE i \in dots : \A j \in dots : j <= i
             IN  IF \A i \in 1..(last - 1) : SubSeq(name, i, i) = "." THEN ""
                 ELSE SubSeq(name, last, Len(name))

\* dirs[:] = [d for d in dirs if d not in excluded_dirs and not d.startswith('.')]
KeepsDir(d) == d \notin ScanExcludedDirs /\ ~StartsWith(d, ".")

\* The test on one file name.
TakesFile(file_name) ==
    /\ file_name \notin ExcludedFiles
    /\ StrLower(SplitExt(file_name)) \in AllowedExtensions

InitScan ==
    /\ fs \in ScanDisks
    /\ returned = <<>>
    /\ pc = "scan_idle"
    /\ chunks = <<>>
    /\ file = <<>>
    /\ loc = [stack |-> <<>>, filepaths |-> <<>>]

GetFilesToProcess ==
    /\ pc = "scan_idle"
    /\ loc' = [stack |-> <<0>>, filepaths |-> <<>>]
    /\ pc' = "scan"
    /\ UNCHANGED <<file, chunks, fs, returned>>

\* One iteration of `for root, dirs, files in os.walk(..., topdown=True)`;
\* os.walk descends into the directories left in dirs only.
ScanDir ==
    /\ pc = "scan"
    /\ loc.stack # <<>>
    /\ LET d == Head(loc.stack)
           kept == {c \in 1..Len(fs.dirs) : fs.dirs[c].parent = d /\ KeepsDir(fs.dirs[c].name)}
           taken == {y \in fs.files : y.dir = d /\ TakesFile(y.name)}
       IN  \E dirs \in Listings(kept), files \in Listings(taken) :
               loc' = [stack |-> dirs \o Tail(loc.stack),
                       filepaths |-> loc.filepaths
                           \o [k \in 1..Len(files) |->
                                  ScanPath(fs, d) \o "/" \o files[k].name]]
    /\ UNCHANGED <<pc, file, chunks, fs, returned>>

ScanReturn ==
    /\ pc = "scan"
    /\ loc.stack = <<>>
    /\ returned' = Append(returned, loc.filepaths)
    /\ pc' = "done"
    /\ UNCHANGED <<file, chunks, loc, fs>>

NextScan == GetFilesToProcess \/ ScanDir \/ ScanReturn

SpecScan == InitScan /\ [][NextScan]_vars

\* The path of directory d below the root: "storage/framework".
RECURSIVE RelativePath(_, _)
RelativePath(disk, d) ==
    IF disk.dirs[d].parent = 0 THEN disk.dirs[d].name
    ELSE RelativePath(disk, disk.dirs[d].parent) \o "/" \o disk.dirs[d].name

\* Directory d, or one above it, is listed in excluded_dirs (by its name or
\* by the end of its path) or is dot-prefixed.
RECURSIVE IsPruned(_, _)
IsPruned(disk, d) ==
    /\ d # 0
    /\ \/ \E e \in ScanExcludedDirs :
              RelativePath(disk, d) = e \/ EndsWith(RelativePath(disk, d), "/" \o e)
       \/ StartsWith(disk.dirs[d].name, ".")
       \/ IsPruned(disk, disk.dirs[d].parent)

\* C25: the files returned are those of the directories that are not
\* pruned whose name is not an excluded file name and ends with an
\* allow-listed extension.
C25_FilesToProcess ==
    pc = "done" =>
        {returned[1][k] : k \in 1..Len(returned[1])} =
            {ScanPath(fs, y.dir) \o "/" \o y.name :
                y \in {y \in fs.files :
                          /\ ~IsPruned(fs, y.dir)
                          /\ y.name \notin ExcludedFiles
                          /\ \E ext \in AllowedExtensions : EndsWith(y.name, ext)}}

\* ---------------------------------------------------------------------
\* QdrantDBManager.get_concatenated_adjacent_chunks
\* (src/db_connection/qdrant.py).  fs is the collection, a sequence of
\* payloads in the order client.scroll returns them; loc holds the
\* argument search_results and the locals of the loop.
\* ---------------------------------------------------------------------

MaxStored == 4
MaxResults == 2

\* `return concatenated_chunks[:5]`
ResultLimit == 5

StoredFiles == {"a.php", "b.php"}

ChunkText == <<"c1", "c2", "c3", "c4", "c5", "c6", "c7", "c8">>

\* The k-th chunk of the collection: three lines long, stored for file f.
Payload(k, f) ==
    [file_path |-> f, start_line |-> 3 * k - 2, end_line |-> 3 * k,
     content |-> <<ChunkText[k]>>]

Reversed(s) == [k \in 1..Len(s) |-> s[Len(s) + 1 - k]]

Collections ==
    UNION {UNION {{[k \in 1..n |-> Payload(k, f[k])],
                   Reversed([k \in 1..n |-> Payload(k, f[k])])} :
                     f \in [1..n -> StoredFiles]} : n \in 1..MaxStored}

\* What a caller may pass for a collection: payloads found by a search,
\* a payload whose content is empty, and a payload of a chunk that is
\* no longer stored.
SearchPayloads(collection) ==
    {collection[k] : k \in 1..Len(collection)}
        \cup {[file_path |-> "a.php", start_line |-> 1, end_line |-> 3, content |-> <<>>],
              [file_path |-> "b.php", start_line |-> 2, end_line |-> 2, content |-> <<"c0">>]}

\* client.scroll with the file_path filter: the points of one file.
Scroll(collection, file_path) ==
    SelectSeq(collection, LAMBDA point : point.file_path = file_path)

\* chunks.sort(key=lambda x: x.get("start_line", ...)): a stable sort.
RECURSIVE SortByStartLine(_)
SortByStartLine(points) ==
    IF points = <<>> THEN <<>>
    ELSE LET k == CHOOSE k \in 1..Len(points) :
                     /\ \A j \in 1..Len(points) : points[k].start_line <= points[j].start_line
                     /\ \A j \in 1..(k - 1) : points[j].start_line # points[k].start_line
         IN  <<points[k]>>
                 \o SortByStartLine(SubSeq(points, 1, k - 1)
                                        \o SubSeq(points, k + 1, Len(points)))

\* The entry appended for the chunk at (0-based) current_idx.
ConcatenatedEntry(file_path, sorted, current_idx) ==
    LET start_idx == IF current_idx - 1 > 0 THEN current_idx - 1 ELSE 0
        end_idx == IF current_idx + 2 < Len(sorted) THEN current_idx + 2 ELSE Len(sorted)
        window_chunks == SubSeq(sorted, start_idx + 1, end_idx)
    IN  [file_path |-> file_path,
         start_line |-> window_chunks[1].start_line,
         end_line |-> window_chunks[Len(window_chunks)].end_line,
         content |-> Join(<<NL>>, [k \in 1..Len(window_chunks) |-> window_chunks[k].content])]

InitConcat ==
    /\ fs \in Collections
    /\ \E search_results \in SeqsUpTo(SearchPayloads(fs), MaxResults) :
           loc = [search_results |-> search_results, i |-> 1,
                  concatenated_chunks |-> <<>>, processed_files |-> {}]
    /\ pc = "concat_idle"
    /\ returned = <<>>
    /\ chunks = <<>>
    /\ file = <<>>

GetConcatenatedAdjacentChunks ==
    /\ pc = "concat_idle"
    /\ IF loc.search_results = <<>>
       THEN returned' = Append(returned, <<>>) /\ pc' = "done"
       ELSE returned' = returned /\ pc' = "concat_loop"
    /\ UNCHANGED <<file, chunks, loc, fs>>

\* One iteration of `for chunk in search_results`; raises is an
\* exception out of client.scroll, caught by the loop body.
ConcatStep ==
    /\ pc = "concat_loop"
    /\ loc.i <= Len(loc.search_results)
    /\ LET chunk == loc.search_results[loc.i]
           next == [loc EXCEPT !.i = @ + 1]
           seen == [next EXCEPT !.processed_files = @ \cup {chunk.file_path}]
           sorted == SortByStartLine(Scroll(fs, chunk.file_path))
           found == {k \in 1..Len(sorted) :
                        /\ sorted[k].start_line = chunk.start_line
                        /\ sorted[k].end_line = chunk.end_line}
       IN  IF chunk.content = <<>> \/ chunk.file_path \in loc.processed_files
           THEN loc' = next
           ELSE \E raises \in BOOLEAN :
                    IF raises \/ sorted = <<>> \/ found = {}
                    THEN loc' = seen
                    ELSE LET current_idx == (CHOOSE k \in found : \A j \in found : k <= j) - 1
                         IN  loc' = [seen EXCEPT !.concatenated_chunks =
                                        Append(@, ConcatenatedEntry(chunk.file_path, sorted,
                                                                    current_idx))]
    /\ UNCHANGED <<pc, file, chunks, fs, returned>>

ConcatReturn ==
    /\ pc = "concat_loop"
    /\ loc.i > Len(loc.search_results)
    /\ returned' = Append(returned,
                          SubSeq(loc.concatenated_chunks, 1,
                                 IF Len(loc.concatenated_chunks) < ResultLimit
                                 THEN Len(loc.concatenated_chunks) ELSE ResultLimit))
    /\ pc' = "done"
    /\ UNCHANGED <<file, chunks, loc, fs>>

NextConcat == GetConcatenatedAdjacentChunks \/ ConcatStep \/ ConcatReturn

SpecConcat == InitConcat /\ [][NextConcat]_vars

\* The chunks of S in start_line order.
RECURSIVE Ascending(_)
Ascending(S) ==
    IF S = {} THEN <<>>
    ELSE LET first == CHOOSE c \in S : \A d \in S : c.start_line <= d.start_line
         IN  <<first>> \o Ascending(S \ {first})

\* The number of chunks of S that start before chunk c.
ChunkRank(S, c) == Cardinality({d \in S : d.start_line < c.start_line})

\* The matched chunk with the two chunks before it and the two after it.
WindowOfFive(S, c) ==
    {d \in S : ChunkRank(S, d) - ChunkRank(S, c) \in -2..2}

\* C27: an entry appended for a search result is the matched chunk
\* joined, in start_line order, with up to two chunks before it and up to
\* two after it in the same file, and carries the start_line of the first
\* and the end_line of the last chunk of that window.
C27_WindowOfFive ==
    [][(pc = "concat_loop" /\ loc.i <= Len(loc.search_results)
           /\ Len(loc'.concatenated_chunks) = Len(loc.concatenated_chunks) + 1) =>
         LET chunk == loc.search_results[loc.i]
             stored == {fs[k] : k \in {k \in 1..Len(fs) : fs[k].file_path = chunk.file_path}}
             window == Ascending(WindowOfFive(stored, chunk))
             entry == loc'.concatenated_chunks[Len(loc'.concatenated_chunks)]
         IN  /\ entry.content = Join(<<NL>>, [k \in 1..Len(window) |-> window[k].content])
             /\ entry.start_line = window[1].start_line
             /\ entry.end_line = window[Len(window)].end_line]_vars

====
